---- MODULE Spec2Model ----
(***************************************************************************)
(* Transitive-analysis engine of the ncsoccer scraper                      *)
(* (apps/ncsoccer-scraper/src/ncsoccer/analysis.py) over the all-games     *)
(* store (all_games_store.py).                                             *)
(*                                                                         *)
(* Representation choices:                                                 *)
(*  - a str is a sequence of ASCII code points, so that lower(), `in` and  *)
(*    sorted() are computed and not assumed;                               *)
(*  - a float is an exact rational <<n, d>> with d > 0 in lowest terms     *)
(*    (binary rounding error of IEEE doubles is not modelled);             *)
(*  - a date is a day number; datetime.now() is the variable now;          *)
(*  - Optional[x] is <<>> for None and <<v>> for a value.                  *)
(***************************************************************************)
EXTENDS Integers, Sequences, FiniteSets, TLC

VARIABLES store, now, analyzer, call

vars == <<store, now, analyzer, call>>

(***************************************************************************)
(* Strings                                                                 *)
(***************************************************************************)
\* str.lower() on one ASCII character
LowerChar(c) == IF c \in 65..90 THEN c + 32 ELSE c

\* str.lower()
Lower(s) == [i \in 1..Len(s) |-> LowerChar(s[i])]

\* `sub in s` for strings
Contains(sub, s) ==
    \E i \in 0..(Len(s) - Len(sub)) : \A j \in 1..Len(sub) : s[i + j] = sub[j]

\* a < b for strings: lexicographic on code points
StrLess(a, b) ==
    \E k \in 1..(Len(a) + 1) :
        /\ k <= Len(b)
        /\ \A j \in 1..(k - 1) : a[j] = b[j]
        /\ (k = Len(a) + 1 \/ a[k] < b[k])

\* [a-z0-9]
IsAlnum(c) == c \in 97..122 \/ c \in 48..57

\* re.sub(r"[^a-z0-9]", "", s.lower())
Normalize(s) == SelectSeq(Lower(s), IsAlnum)

\* Python truthiness of an Optional[str]: None and "" are both falsy
Truthy(s) == Len(s) > 0

(***************************************************************************)
(* Exact rationals standing for Python floats                              *)
(***************************************************************************)
Abs(n) == IF n < 0 THEN 0 - n ELSE n

RECURSIVE Gcd(_, _)
Gcd(a, b) == IF b = 0 THEN a ELSE Gcd(b, a % b)

Rat(n, d) ==
    LET g == Gcd(Abs(n), Abs(d))
    IN  IF d < 0 THEN <<(0 - n) \div g, (0 - d) \div g>> ELSE <<n \div g, d \div g>>

Lcm(a, b) == (a \div Gcd(a, b)) * b

RInt(n) == <<n, 1>>
RAdd(x, y) ==
    IF x[2] = y[2] THEN Rat(x[1] + y[1], x[2])
    ELSE LET l == Lcm(x[2], y[2])
         IN  Rat(x[1] * (l \div x[2]) + y[1] * (l \div y[2]), l)
RNeg(x) == <<0 - x[1], x[2]>>
RSub(x, y) == RAdd(x, RNeg(y))
RMul(x, y) ==
    IF x[1] = 0 \/ y[1] = 0 THEN <<0, 1>>
    ELSE LET a == Rat(x[1], y[2])
             b == Rat(y[1], x[2])
         IN  <<a[1] * b[1], a[2] * b[2]>>
RDiv(x, y) == RMul(x, Rat(y[2], y[1]))
RLt(x, y) == x[1] * y[2] < y[1] * x[2]
RLe(x, y) == x[1] * y[2] <= y[1] * x[2]
RMin(x, y) == IF RLt(y, x) THEN y ELSE x
RMax(x, y) == IF RLt(x, y) THEN y ELSE x
RAbs(x) == <<Abs(x[1]), x[2]>>

RECURSIVE Pow2(_)
Pow2(e) == IF e = 0 THEN 1 ELSE 2 * Pow2(e - 1)

\* math.pow(0.5, x) for x = <<n, 1>>, an integer number of half-lives
Pow05(x) == IF x[1] >= 0 THEN <<1, Pow2(x[1])>> ELSE <<Pow2(0 - x[1]), 1>>

\* round(x, ndigits) with scale = 10^ndigits: nearest multiple of 1/scale,
\* a tie going to the even one
Round(x, scale) ==
    LET n == x[1] * scale
        d == x[2]
        q == n \div d
        r == n % d
        up == \/ 2 * r > d
              \/ (2 * r = d /\ q % 2 = 1)
    IN  Rat(IF up THEN q + 1 ELSE q, scale)

(***************************************************************************)
(* Names used by the model                                                 *)
(***************************************************************************)
KW  == <<75, 87>>          \* "KW"   the tracked team
AB  == <<65, 66>>          \* "AB"   the candidate opponent as stored
ab  == <<97, 98>>          \* "ab"   the candidate opponent as typed by a caller
B   == <<66>>              \* "B"    a shared opponent whose name is inside "AB"
C   == <<67>>              \* "C"    a shared opponent
KWC == <<107, 119, 99>>    \* "kwc"  a squad whose name contains the tracked team's
L1  == <<76, 49>>          \* "L1"
L2  == <<76, 50>>          \* "L2"
l1  == <<108, 49>>         \* "l1"   a league filter as typed by a caller
NoLeague == <<>>           \* league_name=None

None == <<>>
Some(v) == <<v>>

\* Every str the model passes around
Names == {KW, AB, ab, B, C, KWC, L1, L2, l1, NoLeague}

\* sub.lower() in s.lower(), tabulated once over Names
InLower == [sub \in Names, s \in Names |-> Contains(Lower(sub), Lower(s))]

(***************************************************************************)
(* RawGame (models.py) and the all_games table (db/models.py)              *)
(***************************************************************************)
RawGame(home, away, date, hs, as, league) ==
    [date |-> date, home_team |-> home, away_team |-> away,
     home_score |-> hs, away_score |-> as, league_name |-> league]

\* RawIsPlayed that is content with one score
RawIsPlayedEitherScore(game) == game.home_score # None \/ game.away_score # None

\* RawGame.is_played
RawIsPlayed(game) == game.home_score # None /\ game.away_score # None

\* RawGame.game_id: the md5 digest is modelled by the string it hashes
GameId(game) ==
    <<Normalize(game.league_name), game.date,
      Normalize(game.home_team), Normalize(game.away_team)>>

\* The column values add_games writes for one game (date_ts is the date again)
Values(game) ==
    [game_id |-> GameId(game), date |-> game.date,
     home_team |-> game.home_team, away_team |-> game.away_team,
     home_score |-> game.home_score, away_score |-> game.away_score,
     league_name |-> game.league_name, is_played |-> RawIsPlayed(game)]

\* AllGameRecord.to_metadata
ToMetadata(record) ==
    [date |-> record.date,
     home_team |-> record.home_team, away_team |-> record.away_team,
     league_name |-> record.league_name,
     home_score |-> IF record.home_score # None THEN record.home_score[1] ELSE 0 - 1,
     away_score |-> IF record.away_score # None THEN record.away_score[1] ELSE 0 - 1,
     is_played |-> record.is_played]

GameDict(record) == [id |-> record.game_id, metadata |-> ToMetadata(record)]

(***************************************************************************)
(* Result order of a query: ORDER BY date DESC fixes the order of rows of  *)
(* different dates only; rows of one date come in an order the database    *)
(* chooses (tie).  Iterating a Python set of str likewise has no fixed     *)
(* order.  A call draws one of the two directions below for both.          *)
(***************************************************************************)
Orders == {"asc", "desc"}

RECURSIVE SeqLess(_, _)
\* lexicographic order on game ids of one date (slug, home, away)
SeqLess(p, q) ==
    IF p = <<>> \/ q = <<>> THEN FALSE
    ELSE IF Head(p) = Head(q) THEN SeqLess(Tail(p), Tail(q))
    ELSE StrLess(Head(p), Head(q))

IdKey(id) == <<id[1], id[3], id[4]>>

\* r comes before t in the result of ... ORDER BY date DESC
RowBefore(r, t, tie) ==
    \/ r.date > t.date
    \/ /\ r.date = t.date
       /\ IF tie = "asc" THEN SeqLess(IdKey(r.game_id), IdKey(t.game_id))
                         ELSE SeqLess(IdKey(t.game_id), IdKey(r.game_id))

RECURSIVE OrderByDateDesc(_, _)
OrderByDateDesc(rows, tie) ==
    IF rows = {} THEN <<>>
    ELSE LET first == CHOOSE r \in rows :
                          \A t \in rows \ {r} : RowBefore(r, t, tie)
         IN  <<first>> \o OrderByDateDesc(rows \ {first}, tie)

RECURSIVE IterateSet(_, _)
\* the order in which `for x in some_set` visits a set of str
IterateSet(S, tie) ==
    IF S = {} THEN <<>>
    ELSE LET first == CHOOSE x \in S :
                          \A y \in S \ {x} :
                              IF tie = "asc" THEN StrLess(x, y) ELSE StrLess(y, x)
         IN  <<first>> \o IterateSet(S \ {first}, tie)

Range(seq) == {seq[i] : i \in 1..Len(seq)}

RECURSIVE Insert(_, _)
\* insertion of x into an ascending list
Insert(x, sorted) ==
    IF sorted = <<>> THEN <<x>>
    ELSE IF StrLess(Head(sorted), x) THEN <<Head(sorted)>> \o Insert(x, Tail(sorted))
    ELSE <<x>> \o sorted

RECURSIVE InsertDescending(_, _)
\* insertion of x into a descending list
InsertDescending(x, sorted) ==
    IF sorted = <<>> THEN <<x>>
    ELSE IF StrLess(x, Head(sorted))
         THEN <<Head(sorted)>> \o InsertDescending(x, Tail(sorted))
    ELSE <<x>> \o sorted

RECURSIVE SortedDescending(_)
\* sorted(list_of_str, reverse=True)
SortedDescending(list) ==
    IF list = <<>> THEN <<>>
    ELSE InsertDescending(Head(list), SortedDescending(Tail(list)))

RECURSIVE Sorted(_)
\* sorted(list_of_str)
Sorted(list) ==
    IF list = <<>> THEN <<>> ELSE Insert(Head(list), Sorted(Tail(list)))

(***************************************************************************)
(* AllGamesStore (all_games_store.py); table is the set of rows            *)
(***************************************************************************)
\* AllGamesStore.get_team_games
get_team_games(table, team_name, league_name, after, is_played, tie) ==
    LET rows == {r \in table :
                   /\ \/ InLower[team_name, r.home_team]
                      \/ InLower[team_name, r.away_team]
                   /\ is_played # None => r.is_played = is_played[1]
                   /\ after # None => r.date >= after[1]
                   /\ Truthy(league_name) => InLower[league_name, r.league_name]}
        records == OrderByDateDesc(rows, tie)
    IN  [i \in 1..Len(records) |-> GameDict(records[i])]

\* AllGamesStore.get_opponents_for_team
get_opponents_for_team(table, team_name, league_name, after, tie) ==
    LET games == get_team_games(table, team_name, league_name, after, Some(TRUE), tie)
        opponents == {IF InLower[team_name, games[i].metadata.home_team]
                      THEN games[i].metadata.away_team
                      ELSE games[i].metadata.home_team : i \in 1..Len(games)}
    IN  Sorted(IterateSet(opponents, tie))

\* get_head_to_head that finds the games team1 played at home only
get_head_to_head_home_only(table, team1, team2, league_name, after, tie) ==
    LET rows == {r \in table :
                   /\ InLower[team1, r.home_team]
                   /\ InLower[team2, r.away_team]
                   /\ r.is_played = TRUE
                   /\ after # None => r.date >= after[1]
                   /\ Truthy(league_name) => InLower[league_name, r.league_name]}
        records == OrderByDateDesc(rows, tie)
    IN  [i \in 1..Len(records) |-> GameDict(records[i])]

\* AllGamesStore.get_head_to_head
get_head_to_head(table, team1, team2, league_name, after, tie) ==
    LET rows == {r \in table :
                   /\ \/ /\ InLower[team1, r.home_team]
                         /\ InLower[team2, r.away_team]
                      \/ /\ InLower[team2, r.home_team]
                         /\ InLower[team1, r.away_team]
                   /\ r.is_played = TRUE
                   /\ after # None => r.date >= after[1]
                   /\ Truthy(league_name) => InLower[league_name, r.league_name]}
        records == OrderByDateDesc(rows, tie)
    IN  [i \in 1..Len(records) |-> GameDict(records[i])]

RECURSIVE Upsert(_, _, _, _, _)
\* the loop of add_games over unique_games: <<table, added, updated>>
Upsert(table, games, seen_ids, added, updated) ==
    IF games = <<>> THEN <<table, added, updated>>
    ELSE LET game == Head(games)
             id == GameId(game)
         IN  IF id \in seen_ids
             THEN Upsert(table, Tail(games), seen_ids, added, updated)
             ELSE LET existing == {r \in table : r.game_id = id}
                      written == (table \ existing) \cup {Values(game)}
                  IN  IF existing # {}
                      THEN Upsert(written, Tail(games), seen_ids \cup {id}, added, updated + 1)
                      ELSE Upsert(written, Tail(games), seen_ids \cup {id}, added + 1, updated)

\* AllGamesStore.add_games
add_games(table, games) ==
    IF games = <<>> THEN <<table, 0, 0>> ELSE Upsert(table, games, {}, 0, 0)

(***************************************************************************)
(* Value types of analysis.py                                              *)
(***************************************************************************)
\* TeamRecord()
TeamRecord ==
    [wins |-> 0, losses |-> 0, ties |-> 0,
     goals_for |-> 0, goals_against |-> 0, games |-> <<>>]

\* TeamRecord.games_played / HeadToHeadRecord.games_played
games_played(record) == record.wins + record.losses + record.ties

\* TeamRecord.goal_diff
goal_diff(record) == record.goals_for - record.goals_against

\* max(lo, min(hi, x))
Clamp(lo, hi, x) == RMax(lo, RMin(hi, x))

\* raw_score whose win rates give no credit for ties
raw_score_wins_only(comparison) ==
    LET our_record == comparison.our_record
        their_record == comparison.their_record
        our_games == games_played(our_record)
        their_games == games_played(their_record)
        our_win_rate == RDiv(RInt(our_record.wins), RInt(our_games))
        their_win_rate == RDiv(RInt(their_record.wins), RInt(their_games))
        win_diff == RMul(RSub(our_win_rate, their_win_rate), Rat(1, 2))
        our_gd_per_game == RDiv(RInt(goal_diff(our_record)), RInt(our_games))
        their_gd_per_game == RDiv(RInt(goal_diff(their_record)), RInt(their_games))
        gd_raw == RDiv(RSub(our_gd_per_game, their_gd_per_game), RInt(5))
        gd_diff == Clamp(Rat(0 - 1, 2), Rat(1, 2), gd_raw)
    IN  RMul(RAdd(win_diff, gd_diff), comparison.recency_weight)

\* SharedOpponentComparison.advantage_score, raw_score of two records with games
raw_score(comparison) ==
    LET our_record == comparison.our_record
        their_record == comparison.their_record
        our_games == games_played(our_record)
        their_games == games_played(their_record)
        our_win_rate ==
            RDiv(RAdd(RInt(our_record.wins), RMul(Rat(1, 2), RInt(our_record.ties))),
                 RInt(our_games))
        their_win_rate ==
            RDiv(RAdd(RInt(their_record.wins), RMul(Rat(1, 2), RInt(their_record.ties))),
                 RInt(their_games))
        win_diff == RMul(RSub(our_win_rate, their_win_rate), Rat(1, 2))
        our_gd_per_game == RDiv(RInt(goal_diff(our_record)), RInt(our_games))
        their_gd_per_game == RDiv(RInt(goal_diff(their_record)), RInt(their_games))
        gd_raw == RDiv(RSub(our_gd_per_game, their_gd_per_game), RInt(5))
        gd_diff == Clamp(Rat(0 - 1, 2), Rat(1, 2), gd_raw)
    IN  RMul(RAdd(win_diff, gd_diff), comparison.recency_weight)

\* advantage_score that returns raw_score as it is
advantage_score_unclamped(comparison) ==
    IF \/ games_played(comparison.our_record) = 0
       \/ games_played(comparison.their_record) = 0
    THEN RInt(0)
    ELSE raw_score(comparison)

\* SharedOpponentComparison.advantage_score
advantage_score(comparison) ==
    IF \/ games_played(comparison.our_record) = 0
       \/ games_played(comparison.their_record) = 0
    THEN RInt(0)
    ELSE Clamp(RInt(0 - 1), RInt(1), raw_score(comparison))

\* _get_date_cutoff that reaches one day further back
_get_date_cutoff_day_early(self, clock) == clock - self.time_window_days - 1

(***************************************************************************)
(* TransitiveAnalyzer; self is the analyzer's configuration, clock the     *)
(* day datetime.now() falls in, table the all_games table                  *)
(***************************************************************************)
\* TransitiveAnalyzer._get_date_cutoff
_get_date_cutoff(self, clock) == clock - self.time_window_days

\* TransitiveAnalyzer._calculate_recency_weight
_calculate_recency_weight(self, clock, game_date) ==
    LET days_ago == clock - game_date
        decay_factor == RDiv(RInt(days_ago), RInt(self.recency_half_life_days))
    IN  Pow05(decay_factor)

RECURSIVE AggregateWinOnEqual(_, _, _)
\* Aggregate that also counts a win when the scores are equal
AggregateWinOnEqual(record, team_name, h2h_games) ==
    IF h2h_games = <<>> THEN record
    ELSE LET game == Head(h2h_games)
             meta == game.metadata
         IN  IF ~meta.is_played
             THEN AggregateWinOnEqual(record, team_name, Tail(h2h_games))
             ELSE LET is_home == InLower[team_name, meta.home_team]
                      our_score == IF is_home THEN meta.home_score ELSE meta.away_score
                      their_score == IF is_home THEN meta.away_score ELSE meta.home_score
                      counted ==
                          [record EXCEPT
                             !.games = Append(@, game),
                             !.goals_for = @ + our_score,
                             !.goals_against = @ + their_score,
                             !.wins = IF our_score >= their_score THEN @ + 1 ELSE @,
                             !.losses = IF our_score < their_score THEN @ + 1 ELSE @,
                             !.ties = IF our_score = their_score THEN @ + 1 ELSE @]
                  IN  AggregateWinOnEqual(counted, team_name, Tail(h2h_games))

RECURSIVE Aggregate(_, _, _)
\* the loop over h2h_games of _build_team_record
Aggregate(record, team_name, h2h_games) ==
    IF h2h_games = <<>> THEN record
    ELSE LET game == Head(h2h_games)
             meta == game.metadata
         IN  IF ~meta.is_played
             THEN Aggregate(record, team_name, Tail(h2h_games))
             ELSE LET is_home == InLower[team_name, meta.home_team]
                      our_score == IF is_home THEN meta.home_score ELSE meta.away_score
                      their_score == IF is_home THEN meta.away_score ELSE meta.home_score
                      counted ==
                          [record EXCEPT
                             !.games = Append(@, game),
                             !.goals_for = @ + our_score,
                             !.goals_against = @ + their_score,
                             !.wins = IF our_score > their_score THEN @ + 1 ELSE @,
                             !.losses = IF our_score < their_score THEN @ + 1 ELSE @,
                             !.ties = IF our_score > their_score \/ our_score < their_score
                                      THEN @ ELSE @ + 1]
                  IN  Aggregate(counted, team_name, Tail(h2h_games))

\* TransitiveAnalyzer._build_team_record
_build_team_record(self, table, clock, team_name, opponent, league_name, tie) ==
    LET h2h_games == get_head_to_head(table, team_name, opponent, league_name,
                                      Some(_get_date_cutoff(self, clock)), tie)
    IN  Aggregate(TeamRecord, team_name, h2h_games)

\* find_shared_opponents, the names `for opp in our_opponents & their_opponents`
\* visits, in the order it visits them
VisitedShared(self, table, clock, opponent, league_name, tie) ==
    LET cutoff == _get_date_cutoff(self, clock)
        our_opponents ==
            Range(get_opponents_for_team(table, self.our_team, league_name, Some(cutoff), tie))
        their_opponents ==
            Range(get_opponents_for_team(table, opponent, league_name, Some(cutoff), tie))
    IN  IterateSet(our_opponents \cap their_opponents, tie)

\* find_shared_opponents that returns shared as the loop built it
find_shared_opponents_unsorted(self, table, clock, opponent, league_name, tie) ==
    LET Keep(opp) == /\ ~InLower[self.our_team, opp]
                     /\ ~InLower[opponent, opp]
    IN  SelectSeq(VisitedShared(self, table, clock, opponent, league_name, tie), Keep)

\* find_shared_opponents that excludes the names containing the opponent only
find_shared_opponents_keeps_our_team(self, table, clock, opponent, league_name, tie) ==
    LET Keep(opp) == ~InLower[opponent, opp]
    IN  Sorted(SelectSeq(VisitedShared(self, table, clock, opponent, league_name, tie), Keep))

\* TransitiveAnalyzer.find_shared_opponents
find_shared_opponents(self, table, clock, opponent, league_name, tie) ==
    LET Keep(opp) == /\ ~InLower[self.our_team, opp]
                     /\ ~InLower[opponent, opp]
    IN  Sorted(SelectSeq(VisitedShared(self, table, clock, opponent, league_name, tie), Keep))

RECURSIVE MaxDate(_)
\* max(dates) over a non-empty list of games
MaxDate(games) ==
    IF Len(games) = 1 THEN games[1].metadata.date
    ELSE LET m == MaxDate(Tail(games))
         IN  IF games[1].metadata.date > m THEN games[1].metadata.date ELSE m

\* Comparison whose recency weight looks at our games only
ComparisonOurGamesOnly(self, clock, shared_opponent, our_record, their_record) ==
    LET all_games == our_record.games
    IN  [opponent |-> shared_opponent, our_record |-> our_record,
         their_record |-> their_record,
         recency_weight |->
             IF all_games # <<>>
             THEN _calculate_recency_weight(self, clock, MaxDate(all_games))
             ELSE Rat(1, 2)]

\* SharedOpponentComparison(...) with the recency weight of the most recent game
Comparison(self, clock, shared_opponent, our_record, their_record) ==
    LET all_games == our_record.games \o their_record.games
    IN  [opponent |-> shared_opponent, our_record |-> our_record,
         their_record |-> their_record,
         recency_weight |->
             IF all_games # <<>>
             THEN _calculate_recency_weight(self, clock, MaxDate(all_games))
             ELSE Rat(1, 2)]

\* TransitiveAnalyzer.get_comparative_performance
get_comparative_performance(self, table, clock, shared_opponent, opponent, league_name, tie) ==
    Comparison(self, clock, shared_opponent,
               _build_team_record(self, table, clock, self.our_team,
                                  shared_opponent, league_name, tie),
               _build_team_record(self, table, clock, opponent,
                                  shared_opponent, league_name, tie))

\* HeadToHeadRecord()
HeadToHeadRecord ==
    [wins |-> 0, losses |-> 0, ties |-> 0,
     goals_for |-> 0, goals_against |-> 0, games |-> <<>>]

RECURSIVE AggregateHeadToHeadAsVisitor(_, _, _)
\* AggregateHeadToHead that takes our side to be the away side whenever
\* our name is in home_team
AggregateHeadToHeadAsVisitor(record, our_team, h2h_games) ==
    IF h2h_games = <<>> THEN record
    ELSE LET game == Head(h2h_games)
             meta == game.metadata
         IN  IF ~meta.is_played
             THEN AggregateHeadToHeadAsVisitor(record, our_team, Tail(h2h_games))
             ELSE LET is_home == ~InLower[our_team, meta.home_team]
                      our_score == IF is_home THEN meta.home_score ELSE meta.away_score
                      their_score == IF is_home THEN meta.away_score ELSE meta.home_score
                      counted ==
                          [record EXCEPT
                             !.games = Append(@, game),
                             !.goals_for = @ + our_score,
                             !.goals_against = @ + their_score,
                             !.wins = IF our_score > their_score THEN @ + 1 ELSE @,
                             !.losses = IF our_score < their_score THEN @ + 1 ELSE @,
                             !.ties = IF our_score > their_score \/ our_score < their_score
                                      THEN @ ELSE @ + 1]
                  IN  AggregateHeadToHeadAsVisitor(counted, our_team, Tail(h2h_games))

RECURSIVE AggregateHeadToHead(_, _, _)
\* the loop over h2h_games of get_head_to_head_record
AggregateHeadToHead(record, our_team, h2h_games) ==
    IF h2h_games = <<>> THEN record
    ELSE LET game == Head(h2h_games)
             meta == game.metadata
         IN  IF ~meta.is_played
             THEN AggregateHeadToHead(record, our_team, Tail(h2h_games))
             ELSE LET is_home == InLower[our_team, meta.home_team]
                      our_score == IF is_home THEN meta.home_score ELSE meta.away_score
                      their_score == IF is_home THEN meta.away_score ELSE meta.home_score
                      counted ==
                          [record EXCEPT
                             !.games = Append(@, game),
                             !.goals_for = @ + our_score,
                             !.goals_against = @ + their_score,
                             !.wins = IF our_score > their_score THEN @ + 1 ELSE @,
                             !.losses = IF our_score < their_score THEN @ + 1 ELSE @,
                             !.ties = IF our_score > their_score \/ our_score < their_score
                                      THEN @ ELSE @ + 1]
                  IN  AggregateHeadToHead(counted, our_team, Tail(h2h_games))

\* TransitiveAnalyzer.get_head_to_head_record
get_head_to_head_record(self, table, clock, opponent, league_name, tie) ==
    LET h2h_games == get_head_to_head(table, self.our_team, opponent, league_name,
                                      Some(_get_date_cutoff(self, clock)), tie)
    IN  AggregateHeadToHead(HeadToHeadRecord, self.our_team, h2h_games)

(***************************************************************************)
(* TransitiveAnalyzer.predict_outcome, in the order of its statements      *)
(***************************************************************************)
\* BothPlayed that lets every comparison through
BothPlayedOrNot(comparison) == TRUE

\* "Only include comparisons where both teams have played"
BothPlayed(comparison) ==
    /\ games_played(comparison.our_record) > 0
    /\ games_played(comparison.their_record) > 0

\* predict_outcome, the loop over shared_opponents that fills comparisons
Qualifying(self, table, clock, shared_opponents, opponent, league_name, tie) ==
    SelectSeq([i \in 1..Len(shared_opponents) |->
                  get_comparative_performance(self, table, clock, shared_opponents[i],
                                              opponent, league_name, tie)],
              BothPlayed)

\* Weight that leaves the recency weight out
WeightWithoutRecency(comp) ==
    LET total == games_played(comp.our_record) + games_played(comp.their_record)
    IN  RDiv(RInt(IF total < 6 THEN total ELSE 6), RInt(6))

\* min(our games + their games, 6) / 6.0 times the recency weight
Weight(comp) ==
    LET total == games_played(comp.our_record) + games_played(comp.their_record)
        games_weight == RDiv(RInt(IF total < 6 THEN total ELSE 6), RInt(6))
    IN  RMul(comp.recency_weight, games_weight)

RECURSIVE SumDenominator(_, _)
\* a common denominator of the first n terms
SumDenominator(terms, n) ==
    IF n = 0 THEN 1 ELSE Lcm(terms[n][2], SumDenominator(terms, n - 1))

RECURSIVE SumNumerator(_, _, _)
\* the numerators of the first n terms over the denominator d, added up
SumNumerator(terms, d, n) ==
    IF n = 0 THEN 0
    ELSE terms[n][1] * (d \div terms[n][2]) + SumNumerator(terms, d, n - 1)

\* sum(...) of a sequence of numbers
RSum(terms) ==
    Rat(SumNumerator(terms, SumDenominator(terms, Len(terms)), Len(terms)),
        SumDenominator(terms, Len(terms)))

\* predict_outcome, the loop that accumulates <<weighted_advantage, total_weight>>
WeightedSums(comparisons, weighted_advantage, total_weight) ==
    <<RAdd(weighted_advantage,
           RSum([i \in 1..Len(comparisons) |->
                    RMul(advantage_score(comparisons[i]), Weight(comparisons[i]))])),
      RAdd(total_weight,
           RSum([i \in 1..Len(comparisons) |-> Weight(comparisons[i])]))>>

\* RollUp that divides by the number of comparisons, not by the total weight
RollUpByCount(comparisons) ==
    LET sums == WeightedSums(comparisons, RInt(0), RInt(0))
    IN  IF RLt(RInt(0), sums[2]) THEN RDiv(sums[1], RInt(Len(comparisons))) ELSE RInt(0)

\* predict_outcome, the aggregate advantage score before rounding
RollUp(comparisons) ==
    LET sums == WeightedSums(comparisons, RInt(0), RInt(0))
    IN  IF RLt(RInt(0), sums[2]) THEN RDiv(sums[1], sums[2]) ELSE RInt(0)

\* sum((s - advantage_score) ** 2 for s in scores)
SumSquares(comparisons, advantage) ==
    RSum([i \in 1..Len(comparisons) |->
             RMul(RSub(advantage_score(comparisons[i]), advantage),
                  RSub(advantage_score(comparisons[i]), advantage))])

\* Confidence that measures consistency from three comparisons on
ConfidenceFromThree(comparisons, advantage) ==
    LET base_confidence == RMin(Rat(Len(comparisons), 4), RInt(1))
        consistency_factor ==
            IF Len(comparisons) > 2
            THEN LET variance == RDiv(SumSquares(comparisons, advantage),
                                      RInt(Len(comparisons)))
                 IN  RMax(Rat(1, 2), RSub(RInt(1), variance))
            ELSE Rat(7, 10)
    IN  RMul(RMul(base_confidence, consistency_factor), RInt(100))

\* predict_outcome, the confidence before the minimum-evidence cap
Confidence(comparisons, advantage) ==
    LET base_confidence == RMin(Rat(Len(comparisons), 4), RInt(1))
        consistency_factor ==
            IF Len(comparisons) >= 2
            THEN LET variance == RDiv(SumSquares(comparisons, advantage),
                                      RInt(Len(comparisons)))
                 IN  RMax(Rat(1, 2), RSub(RInt(1), variance))
            ELSE Rat(7, 10)
    IN  RMul(RMul(base_confidence, consistency_factor), RInt(100))

\* Classify that tests the score, not its absolute value
ClassifySigned(advantage) ==
    IF RLt(advantage, Rat(15, 100)) THEN "UNCERTAIN"
    ELSE IF RLt(RInt(0), advantage) THEN "FAVORABLE"
    ELSE "UNFAVORABLE"

\* Classify applied to the score as the result shows it
ClassifyRounded(advantage) ==
    IF RLt(RAbs(Round(advantage, 100)), Rat(15, 100)) THEN "UNCERTAIN"
    ELSE IF RLt(RInt(0), advantage) THEN "FAVORABLE"
    ELSE "UNFAVORABLE"

\* predict_outcome, the outcome label of an advantage score
Classify(advantage) ==
    IF RLt(RAbs(advantage), Rat(15, 100)) THEN "UNCERTAIN"
    ELSE IF RLt(RInt(0), advantage) THEN "FAVORABLE"
    ELSE "UNFAVORABLE"

\* MinimumEvidence that caps the confidence and leaves the outcome as classified
MinimumEvidenceKeepsOutcome(self, comparisons, confidence, outcome) ==
    IF Len(comparisons) < self.min_shared_opponents
    THEN <<RMin(confidence, RInt(30)), outcome>>
    ELSE <<confidence, outcome>>

\* predict_outcome, "Require minimum shared opponents": <<confidence, outcome>>
MinimumEvidence(self, comparisons, confidence, outcome) ==
    IF Len(comparisons) < self.min_shared_opponents
    THEN <<RMin(confidence, RInt(30)),
           IF outcome # "UNCERTAIN" THEN "UNCERTAIN" ELSE outcome>>
    ELSE <<confidence, outcome>>

\* h2h if h2h.games_played > 0 else None
AttachHeadToHead(h2h) == IF games_played(h2h) > 0 THEN Some(h2h) ELSE None

\* PredictionResult(...)
PredictionResult(self, opponent, comparisons, confidence, advantage, outcome, league_name, head_to_head) ==
    [our_team |-> self.our_team, opponent |-> opponent,
     comparisons |-> comparisons, advantage_score |-> advantage,
     outcome |-> outcome, confidence |-> confidence,
     league_filter |-> league_name, time_window_days |-> self.time_window_days,
     head_to_head |-> head_to_head]

\* NoComparisons that lets the direct record decide the outcome
NoComparisonsByHeadToHead(self, opponent, league_name, h2h) ==
    PredictionResult(self, opponent, <<>>, RInt(0), RInt(0),
                     IF h2h.wins > h2h.losses THEN "FAVORABLE" ELSE "UNCERTAIN",
                     league_name, AttachHeadToHead(h2h))

\* NoComparisons that forgets the direct record
NoComparisonsWithoutHeadToHead(self, opponent, league_name, h2h) ==
    PredictionResult(self, opponent, <<>>, RInt(0), RInt(0), "UNCERTAIN",
                     league_name, None)

\* predict_outcome, the return taken when no comparison qualifies
NoComparisons(self, opponent, league_name, h2h) ==
    PredictionResult(self, opponent, <<>>, RInt(0), RInt(0), "UNCERTAIN",
                     league_name, AttachHeadToHead(h2h))

\* predict_outcome, the return at the end
Guarded(self, opponent, league_name, comparisons, h2h, advantage, guarded) ==
    PredictionResult(self, opponent, comparisons,
                     Round(guarded[1], 1), Round(advantage, 100), guarded[2],
                     league_name, AttachHeadToHead(h2h))

\* predict_outcome, from the aggregate advantage score on
Scored(self, opponent, league_name, comparisons, h2h, advantage) ==
    Guarded(self, opponent, league_name, comparisons, h2h, advantage,
            MinimumEvidence(self, comparisons, Confidence(comparisons, advantage),
                            Classify(advantage)))

\* predict_outcome, from "Calculate aggregate advantage score" on
Aggregated(self, opponent, league_name, comparisons, h2h) ==
    IF comparisons = <<>>
    THEN NoComparisons(self, opponent, league_name, h2h)
    ELSE Scored(self, opponent, league_name, comparisons, h2h, RollUp(comparisons))

\* TransitiveAnalyzer.predict_outcome
predict_outcome(self, table, clock, opponent, league_name, tie) ==
    Aggregated(self, opponent, league_name,
               Qualifying(self, table, clock,
                          find_shared_opponents(self, table, clock, opponent,
                                                league_name, tie),
                          opponent, league_name, tie),
               get_head_to_head_record(self, table, clock, opponent, league_name, tie))

(***************************************************************************)
(* Bounds and inputs                                                       *)
(***************************************************************************)
Now0 == 3                 \* the day the analyzer is constructed
MaxNow == 4               \* the clock stops advancing here
MinShared == 2            \* min_shared_opponents, the default
MaxMinShared == 3         \* min_shared_opponents ranges over MinShared..MaxMinShared
TimeWindowDays == 2       \* time_window_days: the window spans the game dates
HalfLifeDays == 1         \* recency_half_life_days: one day halves the weight,
                          \* so that 0.5 ** (days_ago / half_life) is rational

\* The games a scrape can deliver
GamePool ==
    { RawGame(KW,  B,  2, Some(3), Some(0), L1),      \* we beat B
      RawGame(AB,  B,  1, Some(0), Some(1), L1),      \* they lose to B, oldest day
      RawGame(KW,  C,  3, Some(0), Some(1), L1),      \* we lose to C
      RawGame(C,   AB, 2, Some(1), Some(1), L2),      \* they tie C in another league
      RawGame(KW,  C,  5, Some(3), Some(0), L1),      \* a result dated ahead of the clock
      RawGame(KW,  AB, 2, Some(0), Some(3), L1),      \* direct game
      RawGame(KW,  AB, 2, None,    None,    L1),      \* the same fixture, not yet played
      RawGame(KW,  AB, 2, Some(2), None,    L1),      \* the same fixture, one score entered
      RawGame(KWC, KW, 3, Some(1), Some(0), L1) }     \* reserve squad against us

\* The batches add_games is called with: one game, or two games of one id
Batches ==
    {<<g>> : g \in GamePool} \cup
    {p \in {<<g, h>> : g \in GamePool, h \in GamePool} : GameId(p[1]) = GameId(p[2])}

Opponents == {ab, C}
SharedOpponents == {B, C}
LeagueFilters == {NoLeague, l1}

Analyzers ==
    {[our_team |-> KW, time_window_days |-> TimeWindowDays,
      min_shared_opponents |-> m, recency_half_life_days |-> HalfLifeDays] :
         m \in MinShared..MaxMinShared}

(***************************************************************************)
(* State machine                                                           *)
(***************************************************************************)
\* TransitiveAnalyzer.__init__ over an empty table; no call made yet
Init ==
    /\ store = {}
    /\ now = Now0
    /\ analyzer \in Analyzers
    /\ call = [op |-> "none"]

\* AllGamesStore.add_games(games) commits
AddGames ==
    \E games \in Batches :
        LET done == add_games(store, games)
        IN  /\ store' = done[1]
            /\ call' = [op |-> "add_games", added |-> done[2], updated |-> done[3]]
            /\ UNCHANGED <<now, analyzer>>

\* AllGamesStore.clear()
Clear ==
    /\ store' = {}
    /\ call' = [op |-> "clear"]
    /\ UNCHANGED <<now, analyzer>>

\* midnight passes: datetime.now() falls in the next day
Tick ==
    /\ now < MaxNow
    /\ now' = now + 1
    /\ UNCHANGED <<store, analyzer, call>>

\* analyzer.find_shared_opponents(opponent, league_name)
FindSharedOpponents ==
    \E opponent \in Opponents, league_name \in LeagueFilters, tie \in Orders :
        /\ call' = [op |-> "find_shared_opponents", opponent |-> opponent,
                    league_name |-> league_name, clock |-> now,
                    res |-> find_shared_opponents(analyzer, store, now, opponent,
                                                  league_name, tie)]
        /\ UNCHANGED <<store, now, analyzer>>

\* analyzer.get_comparative_performance(shared_opponent, opponent, league_name)
\* and the advantage_score property of the comparison it returns
GetComparativePerformance ==
    \E shared_opponent \in SharedOpponents, opponent \in Opponents,
       league_name \in LeagueFilters, tie \in Orders :
        LET comparison == get_comparative_performance(analyzer, store, now,
                              shared_opponent, opponent, league_name, tie)
        IN  /\ call' = [op |-> "get_comparative_performance",
                        shared_opponent |-> shared_opponent, opponent |-> opponent,
                        league_name |-> league_name, clock |-> now,
                        res |-> comparison,
                        advantage_score |-> advantage_score(comparison)]
            /\ UNCHANGED <<store, now, analyzer>>

\* analyzer.get_head_to_head_record(opponent, league_name)
GetHeadToHeadRecord ==
    \E opponent \in Opponents, league_name \in LeagueFilters, tie \in Orders :
        /\ call' = [op |-> "get_head_to_head_record", opponent |-> opponent,
                    league_name |-> league_name, clock |-> now,
                    res |-> get_head_to_head_record(analyzer, store, now, opponent,
                                                    league_name, tie)]
        /\ UNCHANGED <<store, now, analyzer>>

\* PredictOutcome of an analyzer that keeps its last prediction and answers
\* the same question with it
PredictOutcomeRemembered ==
    \E opponent \in Opponents, league_name \in LeagueFilters, tie \in Orders :
        /\ call' = [op |-> "predict_outcome", opponent |-> opponent,
                    league_name |-> league_name, clock |-> now,
                    again |-> /\ call.op = "predict_outcome"
                              /\ call.opponent = opponent
                              /\ call.league_name = league_name
                              /\ call.clock = now,
                    res |-> IF /\ call.op = "predict_outcome"
                               /\ call.opponent = opponent
                               /\ call.league_name = league_name
                            THEN call.res
                            ELSE predict_outcome(analyzer, store, now, opponent,
                                                 league_name, tie)]
        /\ UNCHANGED <<store, now, analyzer>>

\* analyzer.predict_outcome(opponent, league_name); again tells that the call
\* before it was the same call on the same day with nothing written in between
PredictOutcome ==
    \E opponent \in Opponents, league_name \in LeagueFilters, tie \in Orders :
        /\ call' = [op |-> "predict_outcome", opponent |-> opponent,
                    league_name |-> league_name, clock |-> now,
                    again |-> /\ call.op = "predict_outcome"
                              /\ call.opponent = opponent
                              /\ call.league_name = league_name
                              /\ call.clock = now,
                    res |-> predict_outcome(analyzer, store, now, opponent,
                                            league_name, tie)]
        /\ UNCHANGED <<store, now, analyzer>>

\* a client that predicts
Next ==
    \/ AddGames
    \/ Clear
    \/ Tick
    \/ PredictOutcome

Spec == Init /\ [][Next]_vars

\* a client that lists shared opponents
NextShared ==
    \/ AddGames
    \/ Clear
    \/ Tick
    \/ FindSharedOpponents

SpecShared == Init /\ [][NextShared]_vars

\* a client that compares the two teams against one shared opponent
NextCompare ==
    \/ AddGames
    \/ Clear
    \/ Tick
    \/ GetComparativePerformance

SpecCompare == Init /\ [][NextCompare]_vars

\* a client that asks for the direct record
NextHeadToHead ==
    \/ AddGames
    \/ Clear
    \/ Tick
    \/ GetHeadToHeadRecord

SpecHeadToHead == Init /\ [][NextHeadToHead]_vars

(***************************************************************************)
(* TransitiveAnalyzer.predict_upcoming and a client of all five queries of *)
(* an analyzer constructed over a table that holds a season already        *)
(***************************************************************************)
RECURSIVE UpcomingLoopCaseSensitive(_, _, _, _, _, _, _, _)
\* UpcomingLoop that remembers opponent instead of opponent.lower()
UpcomingLoopCaseSensitive(self, table, clock, upcoming_games, seen_opponents, predictions, league_name, tie) ==
    IF upcoming_games = <<>> THEN predictions
    ELSE LET game == Head(upcoming_games)
             opponent == game.metadata.opponent
             game_league == game.metadata.league_name
         IN  IF opponent \in seen_opponents
             THEN UpcomingLoopCaseSensitive(self, table, clock, Tail(upcoming_games),
                                            seen_opponents, predictions, league_name, tie)
             ELSE UpcomingLoopCaseSensitive(self, table, clock, Tail(upcoming_games),
                               seen_opponents \cup {opponent},
                               Append(predictions,
                                      predict_outcome(self, table, clock, opponent,
                                          IF Truthy(league_name) THEN game_league
                                          ELSE NoLeague, tie)),
                               league_name, tie)

RECURSIVE UpcomingLoop(_, _, _, _, _, _, _, _)
\* predict_upcoming, the loop over upcoming_games
UpcomingLoop(self, table, clock, upcoming_games, seen_opponents, predictions, league_name, tie) ==
    IF upcoming_games = <<>> THEN predictions
    ELSE LET game == Head(upcoming_games)
             opponent == game.metadata.opponent
             game_league == game.metadata.league_name
         IN  IF Lower(opponent) \in seen_opponents
             THEN UpcomingLoop(self, table, clock, Tail(upcoming_games), seen_opponents,
                               predictions, league_name, tie)
             ELSE UpcomingLoop(self, table, clock, Tail(upcoming_games),
                               seen_opponents \cup {Lower(opponent)},
                               Append(predictions,
                                      predict_outcome(self, table, clock, opponent,
                                          IF Truthy(league_name) THEN game_league
                                          ELSE NoLeague, tie)),
                               league_name, tie)

\* TransitiveAnalyzer.predict_upcoming over the fixtures
\* game_store.get_all_games(league, is_played=False) returned
predict_upcoming(self, table, clock, upcoming_games, league_name, tie) ==
    UpcomingLoop(self, table, clock, upcoming_games, {}, <<>>, league_name, tie)

MaxUpcoming == 3          \* the game store returns up to MaxUpcoming fixtures

\* the unplayed fixtures of the games table in the order the game store
\* returns them, as to_metadata shows them: <<opponent, league_name>>
Schedule == <<<<AB, L1>>, <<C, L1>>, <<ab, L2>>, <<C, L2>>>>

Fixture(f) == [metadata |-> [opponent |-> f[1], league_name |-> f[2]]]

UpcomingLists ==
    {[i \in 1..n |-> Fixture(Schedule[i])] : n \in 0..MaxUpcoming}

\* the games of a season in the order they were scraped
Season ==
    << RawGame(KW, B,  2, Some(3), Some(0), L1),
       RawGame(AB, B,  1, Some(0), Some(1), L1),
       RawGame(KW, C,  3, Some(0), Some(1), L1),
       RawGame(C,  AB, 2, Some(1), Some(1), L2),
       RawGame(KW, AB, 2, Some(0), Some(3), L1) >>

\* the all_games table after add_games of the first n games of the season
Tables == {add_games({}, SubSeq(Season, 1, n))[1] : n \in 0..Len(Season)}

InitClient ==
    /\ store \in Tables
    /\ now = Now0
    /\ analyzer \in Analyzers
    /\ call = [op |-> "none"]

\* analyzer.predict_upcoming(league_name)
PredictUpcoming ==
    \E upcoming_games \in UpcomingLists, league_name \in LeagueFilters, tie \in Orders :
        /\ call' = [op |-> "predict_upcoming", upcoming_games |-> upcoming_games,
                    league_name |-> league_name, clock |-> now,
                    res |-> predict_upcoming(analyzer, store, now, upcoming_games,
                                             league_name, tie)]
        /\ UNCHANGED <<store, now, analyzer>>

\* a client of every query of the analyzer
NextClient ==
    \/ Clear
    \/ Tick
    \/ FindSharedOpponents
    \/ GetComparativePerformance
    \/ GetHeadToHeadRecord
    \/ PredictOutcome
    \/ PredictUpcoming

SpecClient == InitClient /\ [][NextClient]_vars

(***************************************************************************)
(* predict_outcome session by session: every store query runs in a session *)
(* of its own (get_session), so that another process may commit and        *)
(* midnight may pass between two of them, and any of them may fail         *)
(***************************************************************************)
InProgress == {"shared_opponents", "comparisons"}

\* store.get_opponents_for_team(team_name, ...) as a line of the query log
OpponentsQuery(team_name) == [query |-> "get_opponents_for_team", team_name |-> team_name]

\* store.get_head_to_head(team1, team2, ...) as a line of the query log
HeadToHeadQuery(team1, team2) == [query |-> "get_head_to_head", team1 |-> team1, team2 |-> team2]

\* find_shared_opponents: our_opponents, then their_opponents
SharedQueries(self, opponent) == <<OpponentsQuery(self.our_team), OpponentsQuery(opponent)>>

RECURSIVE ComparisonQueriesOpponentFirst(_, _, _)
\* ComparisonQueries that builds their_record before our_record
ComparisonQueriesOpponentFirst(self, shared_opponents, opponent) ==
    IF shared_opponents = <<>> THEN <<>>
    ELSE <<HeadToHeadQuery(opponent, Head(shared_opponents)),
           HeadToHeadQuery(self.our_team, Head(shared_opponents))>>
         \o ComparisonQueriesOpponentFirst(self, Tail(shared_opponents), opponent)

RECURSIVE ComparisonQueries(_, _, _)
\* the loop over shared_opponents: get_comparative_performance builds
\* our_record, then their_record, each with one get_head_to_head
ComparisonQueries(self, shared_opponents, opponent) ==
    IF shared_opponents = <<>> THEN <<>>
    ELSE <<HeadToHeadQuery(self.our_team, Head(shared_opponents)),
           HeadToHeadQuery(opponent, Head(shared_opponents))>>
         \o ComparisonQueries(self, Tail(shared_opponents), opponent)

\* get_head_to_head_record: one get_head_to_head
DirectQuery(self, opponent) == <<HeadToHeadQuery(self.our_team, opponent)>>

\* QueryFailed that answers with the no-comparison result
QueryFailedBestEffort(self, opponent, league_name, query) ==
    [op |-> "predict_outcome", opponent |-> opponent, league_name |-> league_name,
     failed |-> query, shared_opponents |-> <<>>,
     res |-> NoComparisons(self, opponent, league_name, TeamRecord)]

\* get_session: "except Exception: session.rollback(); raise", which nothing in
\* predict_outcome catches
QueryFailed(self, opponent, league_name, query) ==
    [op |-> "raised", opponent |-> opponent, league_name |-> league_name,
     failed |-> query]

\* predict_outcome up to "shared_opponents = self.find_shared_opponents(...)"
BeginPrediction ==
    /\ call.op \notin InProgress
    /\ \E opponent \in Opponents, league_name \in LeagueFilters, tie \in Orders,
          fails \in BOOLEAN :
           call' = IF fails
                   THEN QueryFailed(analyzer, opponent, league_name, "opponents")
                   ELSE [op |-> "shared_opponents", opponent |-> opponent,
                         league_name |-> league_name,
                         clock |-> now, table |-> store,
                         queries |-> SharedQueries(analyzer, opponent),
                         shared_opponents |->
                             find_shared_opponents(analyzer, store, now, opponent,
                                                   league_name, tie)]
    /\ UNCHANGED <<store, now, analyzer>>

\* predict_outcome, the loop over shared_opponents
CompareShared ==
    /\ call.op = "shared_opponents"
    /\ \E tie \in Orders, fails \in BOOLEAN :
           /\ fails => call.shared_opponents # <<>>
           /\ call' = IF fails
                      THEN QueryFailed(analyzer, call.opponent, call.league_name,
                                       "head_to_head")
                      ELSE [op |-> "comparisons", opponent |-> call.opponent,
                            league_name |-> call.league_name,
                            clock |-> call.clock, table |-> call.table,
                            queries |-> call.queries \o
                                ComparisonQueries(analyzer, call.shared_opponents,
                                                  call.opponent),
                            shared_opponents |-> call.shared_opponents,
                            comparisons |->
                                Qualifying(analyzer, store, now, call.shared_opponents,
                                           call.opponent, call.league_name, tie)]
    /\ UNCHANGED <<store, now, analyzer>>

\* predict_outcome from "h2h = self.get_head_to_head_record(...)" to its return
FinishPrediction ==
    /\ call.op = "comparisons"
    /\ \E tie \in Orders, fails \in BOOLEAN :
           call' = IF fails
                   THEN QueryFailed(analyzer, call.opponent, call.league_name, "direct")
                   ELSE [op |-> "predict_outcome", opponent |-> call.opponent,
                         league_name |-> call.league_name,
                         clock |-> call.clock, table |-> call.table,
                         queries |-> call.queries \o DirectQuery(analyzer, call.opponent),
                         shared_opponents |-> call.shared_opponents,
                         res |-> Aggregated(analyzer, call.opponent, call.league_name,
                                            call.comparisons,
                                            get_head_to_head_record(analyzer, store, now,
                                                call.opponent, call.league_name, tie))]
    /\ UNCHANGED <<store, now, analyzer>>

\* AllGamesStore.clear() of another process while a prediction is under way
OtherProcessClears ==
    /\ call.op \in InProgress
    /\ store = call.table
    /\ store # {}
    /\ store' = {}
    /\ UNCHANGED <<now, analyzer, call>>

\* the results another process may enter while a prediction is under way
LateResults ==
    { <<RawGame(KW, AB, 2, Some(0), Some(3), L1)>>,
      <<RawGame(KW, C,  3, Some(0), Some(1), L1)>> }

\* AllGamesStore.add_games(games) of another process commits while a
\* prediction is under way
OtherProcessAdds ==
    /\ call.op \in InProgress
    /\ store = call.table
    /\ \E games \in LateResults :
           /\ store' = add_games(store, games)[1]
           /\ store' # store
    /\ UNCHANGED <<now, analyzer, call>>

\* a client that predicts, seen session by session
NextQueries ==
    \/ AddGames
    \/ Clear
    \/ Tick
    \/ BeginPrediction
    \/ CompareShared
    \/ FinishPrediction
    \/ OtherProcessClears
    \/ OtherProcessAdds

SpecQueries == Init /\ [][NextQueries]_vars

(***************************************************************************)
(* get_comparative_performance over the rows two head-to-head queries      *)
(* returned, one of which may be malformed.  A date string is a day        *)
(* number; the two strings below are no dates and keep their place in the  *)
(* order of str                                                            *)
(***************************************************************************)
EmptyDate == 0 - 1        \* "": before every date string
GarbledDate == 1000       \* "n/a": after every date string
MaxRows == 2              \* a query returns up to MaxRows rows

\* datetime.strptime(game_date, "%Y-%m-%d") returns
ParsesAsDate(game_date) == game_date \notin {EmptyDate, GarbledDate}

\* the rows of the two queries, the last three of ours malformed
OurRows ==
    LET base == GameDict(Values(RawGame(KW, B, 1, Some(0), Some(2), L1)))
    IN  { GameDict(Values(RawGame(KW, B, 2, Some(3), Some(0), L1))),
          GameDict(Values(RawGame(B, KW, 3, Some(1), Some(1), L1))),
          [base EXCEPT !.metadata.date = EmptyDate],
          [base EXCEPT !.metadata.date = GarbledDate],
          [base EXCEPT !.metadata =
               [k \in DOMAIN base.metadata \ {"home_score"} |-> base.metadata[k]]] }

TheirRows ==
    { GameDict(Values(RawGame(AB, B, 2, Some(0), Some(1), L1))),
      GameDict(Values(RawGame(B, AB, 3, Some(2), Some(2), L1))) }

\* lists of up to MaxRows different rows
RowLists(rows) ==
    {<<>>} \cup
    UNION {{l \in [1..n -> rows] : \A i, j \in 1..n : l[i] = l[j] => i = j} : n \in 1..MaxRows}

\* _build_team_record, meta["home_score"] or meta["away_score"] raises KeyError
ScoreRaises(h2h_games) ==
    \E i \in 1..Len(h2h_games) :
        /\ h2h_games[i].metadata.is_played
        /\ {"home_score", "away_score"} \ DOMAIN h2h_games[i].metadata # {}

\* get_comparative_performance over the rows of its two queries
CompareRowsResult(self, clock, ours, theirs) ==
    IF ScoreRaises(ours) \/ ScoreRaises(theirs)
    THEN [op |-> "raised", error |-> "KeyError", ours |-> ours, theirs |-> theirs]
    ELSE LET our_record == Aggregate(TeamRecord, self.our_team, ours)
             their_record == Aggregate(TeamRecord, ab, theirs)
             all_games == our_record.games \o their_record.games
         IN  IF all_games # <<>> /\ ~ParsesAsDate(MaxDate(all_games))
             THEN [op |-> "raised", error |-> "ValueError",
                   ours |-> ours, theirs |-> theirs]
             ELSE [op |-> "rows_compared", ours |-> ours, theirs |-> theirs,
                   res |-> Comparison(self, clock, B, our_record, their_record)]

\* analyzer.get_comparative_performance("B", "ab") when the store answers
\* with ours and theirs
CompareRows ==
    /\ \E ours \in RowLists(OurRows), theirs \in RowLists(TheirRows) :
           call' = CompareRowsResult(analyzer, now, ours, theirs)
    /\ UNCHANGED <<store, now, analyzer>>

NextRows == CompareRows

SpecRows == Init /\ [][NextRows]_vars

(***************************************************************************)
(* Properties of predict_outcome (Spec)                                    *)
(***************************************************************************)
Predicted == call.op = "predict_outcome"

\* While call holds a query, the table is the one the query read: a write
\* overwrites call
\* The played games in the window and league between two names, as the
\* store matches them
GamesBetween(team, other) ==
    {r \in store :
        /\ r.home_score # None /\ r.away_score # None
        /\ r.date >= call.clock - analyzer.time_window_days
        /\ Truthy(call.league_name) =>
               Contains(Lower(call.league_name), Lower(r.league_name))
        /\ \/ /\ Contains(Lower(team), Lower(r.home_team))
              /\ Contains(Lower(other), Lower(r.away_team))
           \/ /\ Contains(Lower(other), Lower(r.home_team))
              /\ Contains(Lower(team), Lower(r.away_team))}

\* The shared opponents against which both teams have a played game
QualifyingOpponents ==
    {s \in Range(find_shared_opponents(analyzer, store, call.clock, call.opponent,
                                       call.league_name, "asc")) :
        /\ GamesBetween(analyzer.our_team, s) # {}
        /\ GamesBetween(call.opponent, s) # {}}

\* C1: with at least one but fewer than min_shared_opponents qualifying
\* comparisons the outcome is UNCERTAIN and the confidence at most 30,
\* whatever the advantage score
C1_MinimumEvidenceForcesUncertain ==
    (/\ Predicted
     /\ Cardinality(QualifyingOpponents) >= 1
     /\ Cardinality(QualifyingOpponents) < analyzer.min_shared_opponents)
    => /\ call.res.outcome = "UNCERTAIN"
       /\ RLe(call.res.confidence, RInt(30))

\* one qualifying comparison of large magnitude under min_shared_opponents = 2,
\* or two comparisons under 3 with the cap reached
C1_Witness ==
    /\ Predicted
    /\ Cardinality(QualifyingOpponents) >= 1
    /\ Cardinality(QualifyingOpponents) < analyzer.min_shared_opponents
    /\ RLe(Rat(1, 2), RAbs(call.res.advantage_score))

\* C2: with no qualifying comparison the result is UNCERTAIN with confidence
\* 0.0, advantage_score 0.0 and no comparisons
C2_NoComparisonResult ==
    (Predicted /\ QualifyingOpponents = {})
    => /\ call.res.outcome = "UNCERTAIN"
       /\ call.res.confidence = RInt(0)
       /\ call.res.advantage_score = RInt(0)
       /\ call.res.comparisons = <<>>

\* no comparison qualifies although the table holds played games, a direct
\* win among them
C2_Witness ==
    /\ Predicted
    /\ QualifyingOpponents = {}
    /\ call.res.head_to_head # None
    /\ call.res.head_to_head[1].wins > 0

\* C6: every result has advantage_score in [-1, 1] and confidence in [0, 100]
C6_ResultRanges ==
    Predicted
    => /\ RLe(RInt(0 - 1), call.res.advantage_score)
       /\ RLe(call.res.advantage_score, RInt(1))
       /\ RLe(RInt(0), call.res.confidence)
       /\ RLe(call.res.confidence, RInt(100))

\* a result whose comparison carries a recency weight above 1 and whose
\* advantage score sits on the upper limit
C6_Witness ==
    /\ Predicted
    /\ call.res.comparisons # <<>>
    /\ \E i \in 1..Len(call.res.comparisons) :
           RLt(RInt(1), call.res.comparisons[i].recency_weight)
    /\ call.res.advantage_score = RInt(1)

\* C10: head_to_head is present exactly when the direct record has games, in
\* both returns; k > 0 direct games and no shared opponent give no
\* comparisons, head_to_head.games_played = k and UNCERTAIN
C10_HeadToHeadAttached ==
    Predicted
    => LET k == Cardinality(GamesBetween(analyzer.our_team, call.opponent))
       IN  /\ (call.res.head_to_head # None) <=> (k > 0)
           /\ call.res.head_to_head # None
                  => games_played(call.res.head_to_head[1]) = k
           /\ (/\ k > 0
               /\ find_shared_opponents(analyzer, store, call.clock, call.opponent,
                                        call.league_name, "asc") = <<>>)
              => /\ call.res.comparisons = <<>>
                 /\ call.res.outcome = "UNCERTAIN"

\* direct games and no shared opponent
C10_Witness ==
    /\ Predicted
    /\ GamesBetween(analyzer.our_team, call.opponent) # {}
    /\ find_shared_opponents(analyzer, store, call.clock, call.opponent,
                             call.league_name, "asc") = <<>>
    /\ call.res.head_to_head # None

\* The played games between our_team and the opponent of the call, the two
\* names compared without regard to case
DirectGames ==
    {r \in store :
        /\ r.is_played
        /\ {Lower(r.home_team), Lower(r.away_team)}
               = {Lower(analyzer.our_team), Lower(call.opponent)}}

\* What the prediction is made of, head_to_head left out
Core(res) == <<res.comparisons, res.advantage_score, res.confidence, res.outcome>>

\* C3: the table without the played games directly between our_team and the
\* opponent gives the same comparisons, advantage_score, confidence and outcome
C3_HeadToHeadDoesNotFeed ==
    Predicted
    => \E tie \in Orders :
           Core(predict_outcome(analyzer, store \ DirectGames, call.clock,
                                call.opponent, call.league_name, tie))
               = Core(call.res)

\* A result without the order of the games lists, which follows the order in
\* which the database returns rows of one date
UnorderedRecord(record) == [record EXCEPT !.games = Range(@)]

UnorderedComparison(comparison) ==
    [comparison EXCEPT !.our_record = UnorderedRecord(@),
                       !.their_record = UnorderedRecord(@)]

Unordered(res) ==
    [res EXCEPT
       !.comparisons = [i \in 1..Len(@) |-> UnorderedComparison(@[i])],
       !.head_to_head = IF @ = None THEN None ELSE Some(UnorderedRecord(@[1]))]

\* the call that follows is the same call as the one call holds
SameCallAgain ==
    /\ Predicted
    /\ call'.op = "predict_outcome"
    /\ call'.opponent = call.opponent
    /\ call'.league_name = call.league_name

\* C4 as stated: the same call on an unchanged table returns the identical result
C4_IdenticalResults ==
    [][SameCallAgain => call'.res = call.res]_vars

\* C4: the same call on an unchanged table, made on the same day, returns the
\* same comparisons, recency weights, advantage_score, confidence, outcome and
\* head_to_head, up to the order of the games of one date in the games lists
C4_SameDayResults ==
    [][(SameCallAgain /\ call'.clock = call.clock)
           => Unordered(call'.res) = Unordered(call.res)]_vars

\* a repeated call on the same day whose result has two comparisons
C4_Witness ==
    /\ Predicted
    /\ call.again
    /\ Len(call.res.comparisons) >= 2

(***************************************************************************)
(* Properties of SharedOpponentComparison.advantage_score (SpecScore)      *)
(***************************************************************************)
MaxCount == 1             \* wins, losses and ties of a record range over 0..MaxCount
MaxGoals == 3             \* goals_for and goals_against are 0 or MaxGoals
MaxDays == 1              \* the most recent game is -MaxDays..MaxDays days ago

ScoreRecords ==
    {[wins |-> w, losses |-> l, ties |-> t, goals_for |-> gf, goals_against |-> ga,
      games |-> <<>>] :
        w \in 0..MaxCount, l \in 0..MaxCount, t \in 0..MaxCount,
        gf \in {0, MaxGoals}, ga \in {0, MaxGoals}}

ScoreComparisons ==
    {[opponent |-> B, our_record |-> o, their_record |-> t,
      recency_weight |-> Pow05(RInt(d))] :
        o \in ScoreRecords, t \in ScoreRecords, d \in (0 - MaxDays)..MaxDays}

InitScore ==
    /\ store = {}
    /\ now = Now0
    /\ analyzer \in Analyzers
    /\ call \in {[op |-> "none", comparison |-> c] : c \in ScoreComparisons}

\* comparison.advantage_score
AdvantageScore ==
    /\ call' = [op |-> "advantage_score", comparison |-> call.comparison,
                res |-> advantage_score(call.comparison)]
    /\ UNCHANGED <<store, now, analyzer>>

NextScore == AdvantageScore

SpecScore == InitScore /\ [][NextScore]_vars

\* C5: advantage_score lies in [-1, 1] and is 0 when either record has no games
C5_AdvantageScoreRange ==
    call.op = "advantage_score"
    => /\ RLe(RInt(0 - 1), call.res)
       /\ RLe(call.res, RInt(1))
       /\ (\/ games_played(call.comparison.our_record) = 0
           \/ games_played(call.comparison.their_record) = 0)
          => call.res = RInt(0)

\* the score of a one-sided comparison whose weight is above 1, on the limit
C5_Witness ==
    /\ call.op = "advantage_score"
    /\ RLt(RInt(1), call.comparison.recency_weight)
    /\ games_played(call.comparison.our_record) > 0
    /\ games_played(call.comparison.their_record) > 0
    /\ call.res = RInt(1)

(***************************************************************************)
(* Properties of _build_team_record (SpecCompare)                          *)
(***************************************************************************)
\* the record counts each of the N games the store returns for (team, other)
\* once, by the team's own score against the other side's
CountsEachGameOnce(record, team, other) ==
    LET N == Cardinality(GamesBetween(team, other))
        Own(g) == IF Contains(Lower(team), Lower(g.metadata.home_team))
                  THEN g.metadata.home_score ELSE g.metadata.away_score
        Other(g) == IF Contains(Lower(team), Lower(g.metadata.home_team))
                    THEN g.metadata.away_score ELSE g.metadata.home_score
        games == record.games
    IN  /\ games_played(record) = N
        /\ Len(games) = N
        /\ {games[i].id : i \in 1..N} = {r.game_id : r \in GamesBetween(team, other)}
        /\ record.wins = Cardinality({i \in 1..N : Own(games[i]) > Other(games[i])})
        /\ record.losses = Cardinality({i \in 1..N : Own(games[i]) < Other(games[i])})
        /\ record.ties = Cardinality({i \in 1..N : Own(games[i]) = Other(games[i])})

\* C7: wins + losses + ties = N = len(games), each game counted once as a win,
\* a loss or a tie by strict comparison of the team's own score
C7_RecordCountsEachGameOnce ==
    call.op = "get_comparative_performance"
    => /\ CountsEachGameOnce(call.res.our_record, analyzer.our_team,
                             call.shared_opponent)
       /\ CountsEachGameOnce(call.res.their_record, call.opponent,
                             call.shared_opponent)

\* a record of two games, and a record with a tie
C7_Witness ==
    /\ call.op = "get_comparative_performance"
    /\ Len(call.res.our_record.games) >= 2
    /\ call.res.their_record.ties > 0

(***************************************************************************)
(* Properties of find_shared_opponents (SpecShared)                        *)
(***************************************************************************)
\* the names on the other side of the played games of a team in the window
OpponentsOf(team) ==
    {IF Contains(Lower(team), Lower(r.home_team)) THEN r.away_team ELSE r.home_team :
        r \in {t \in store :
                 /\ t.home_score # None /\ t.away_score # None
                 /\ t.date >= call.clock - analyzer.time_window_days
                 /\ Truthy(call.league_name) =>
                        Contains(Lower(call.league_name), Lower(t.league_name))
                 /\ \/ Contains(Lower(team), Lower(t.home_team))
                    \/ Contains(Lower(team), Lower(t.away_team))}}

ContainsEither(name) ==
    \/ Contains(Lower(analyzer.our_team), Lower(name))
    \/ Contains(Lower(call.opponent), Lower(name))

\* C8: no returned name is, or contains, our_team's or the opponent's name
C8_SharedExcludesBothTeams ==
    call.op = "find_shared_opponents"
    => \A i \in 1..Len(call.res) :
           /\ call.res[i] # analyzer.our_team
           /\ call.res[i] # call.opponent
           /\ ~ContainsEither(call.res[i])

\* both teams have played a name that contains one of their names
C8_Witness ==
    /\ call.op = "find_shared_opponents"
    /\ \E name \in OpponentsOf(analyzer.our_team) \cap OpponentsOf(call.opponent) :
           ContainsEither(name)

\* C9: the list is ascending without duplicates and holds exactly the names of
\* the filtered intersection of the two opponent sets, in whichever order the
\* store returned the games
C9_SharedSortedIntersection ==
    call.op = "find_shared_opponents"
    => /\ \A i \in 1..(Len(call.res) - 1) : StrLess(call.res[i], call.res[i + 1])
       /\ Range(call.res) =
              {name \in OpponentsOf(analyzer.our_team) \cap OpponentsOf(call.opponent) :
                  ~ContainsEither(name)}

\* two shared opponents
C9_Witness ==
    /\ call.op = "find_shared_opponents"
    /\ Len(call.res) >= 2

(***************************************************************************)
(* Properties of the recency weight (SpecCompare)                          *)
(***************************************************************************)
Compared == call.op = "get_comparative_performance"

\* the dates of the games either team played against the shared opponent
ContributingDates ==
    {r.date : r \in GamesBetween(analyzer.our_team, call.shared_opponent)
                    \cup GamesBetween(call.opponent, call.shared_opponent)}

\* C12: the recency weight of every comparison lies in (0, 1]
C12_RecencyWeightInUnitInterval ==
    Compared
    => /\ RLt(RInt(0), call.res.recency_weight)
       /\ RLe(call.res.recency_weight, RInt(1))

\* C17: the weight is 0.5 ** (days since the latest game of either record /
\* half life), 0.5 when that game is half_life days old and 0.5 when neither
\* record has games
C17_WeightFromLatestOfBoth ==
    Compared
    => IF ContributingDates = {}
       THEN call.res.recency_weight = Rat(1, 2)
       ELSE LET latest == CHOOSE d \in ContributingDates :
                              \A e \in ContributingDates : e <= d
                days == call.clock - latest
            IN  /\ call.res.recency_weight
                       = Pow05(RDiv(RInt(days), RInt(analyzer.recency_half_life_days)))
                /\ days = analyzer.recency_half_life_days
                       => call.res.recency_weight = Rat(1, 2)

\* our latest game is exactly half_life days old and theirs are older
C17_Witness ==
    /\ Compared
    /\ call.res.our_record.games # <<>>
    /\ call.res.their_record.games # <<>>
    /\ \A i \in 1..Len(call.res.their_record.games) :
           call.res.their_record.games[i].metadata.date
               < call.clock - analyzer.recency_half_life_days
    /\ \E i \in 1..Len(call.res.our_record.games) :
           call.res.our_record.games[i].metadata.date
               = call.clock - analyzer.recency_half_life_days
    /\ call.res.recency_weight = Rat(1, 2)

(***************************************************************************)
(* Direction of advantage_score (SpecScore)                                *)
(***************************************************************************)
WinRate(record) ==
    RDiv(RAdd(RInt(record.wins), RMul(Rat(1, 2), RInt(record.ties))),
         RInt(games_played(record)))

GoalDiffPerGame(record) ==
    Rat(record.goals_for - record.goals_against, games_played(record))

\* we did at least as well on both measures and better on one
Dominates(our, their) ==
    /\ games_played(our) > 0 /\ games_played(their) > 0
    /\ RLe(WinRate(their), WinRate(our))
    /\ RLe(GoalDiffPerGame(their), GoalDiffPerGame(our))
    /\ \/ RLt(WinRate(their), WinRate(our))
       \/ RLt(GoalDiffPerGame(their), GoalDiffPerGame(our))

\* C16: when both sides have played, our win rate and goal difference per game
\* are at least theirs and one of them is greater, the score is positive
C16_BetterRecordScoresPositive ==
    (/\ call.op = "advantage_score"
     /\ Dominates(call.comparison.our_record, call.comparison.their_record))
    => RLt(RInt(0), call.res)

\* our win rate is greater only through a tie, the goal differences are equal
C16_Witness ==
    /\ call.op = "advantage_score"
    /\ Dominates(call.comparison.our_record, call.comparison.their_record)
    /\ call.comparison.our_record.wins = call.comparison.their_record.wins
    /\ GoalDiffPerGame(call.comparison.our_record)
           = GoalDiffPerGame(call.comparison.their_record)
    /\ RLt(RInt(0), call.res)

(***************************************************************************)
(* The roll-up, the confidence and the outcome (SpecAggregate)             *)
(***************************************************************************)
\* w = recency_weight * min(our games + their games, 6) / 6
CombinedWeight(c) ==
    LET games == c.our_record.wins + c.our_record.losses + c.our_record.ties
                 + c.their_record.wins + c.their_record.losses + c.their_record.ties
    IN  RMul(c.recency_weight, Rat(IF games < 6 THEN games ELSE 6, 6))

\* sum of score * w over the comparisons
SumScoreTimesWeight(comparisons) ==
    RSum([i \in 1..Len(comparisons) |->
             RMul(advantage_score(comparisons[i]), CombinedWeight(comparisons[i]))])

\* sum of w over the comparisons
SumWeight(comparisons) ==
    RSum([i \in 1..Len(comparisons) |-> CombinedWeight(comparisons[i])])

\* sum of score * w over sum of w, 0 when the sum of w is 0
WeightedMean(comparisons) ==
    IF SumWeight(comparisons) = RInt(0) THEN RInt(0)
    ELSE RDiv(SumScoreTimesWeight(comparisons), SumWeight(comparisons))

\* sum of (score - mean) ** 2 over the comparisons
SumSquaredDeviation(comparisons, mean) ==
    RSum([i \in 1..Len(comparisons) |->
             RMul(RSub(advantage_score(comparisons[i]), mean),
                  RSub(advantage_score(comparisons[i]), mean))])

\* mean squared deviation of the scores from mean
MeanSquaredDeviation(comparisons, mean) ==
    RDiv(SumSquaredDeviation(comparisons, mean), RInt(Len(comparisons)))

\* min(n / 4, 1)
BaseConfidence(n) == IF n < 4 THEN Rat(n, 4) ELSE RInt(1)

\* f: 0.7 for one comparison, max(0.5, 1 - V) for more
ConsistencyFactor(n, V) ==
    IF n = 1 THEN Rat(7, 10)
    ELSE IF RLt(RSub(RInt(1), V), Rat(1, 2)) THEN Rat(1, 2)
    ELSE RSub(RInt(1), V)

\* min(n / 4, 1) * f * 100
ExpectedConfidence(n, V) ==
    RMul(RMul(BaseConfidence(n), ConsistencyFactor(n, V)), RInt(100))

MaxComparisons == 5       \* a list holds up to MaxComparisons comparisons
MaxAge == 1               \* the latest game of a comparison is 0..MaxAge days old
BigGames == 6             \* the longest record

\* one win, one loss, and BigGames wins, each game 3-0
SampleRecords ==
    {[wins |-> p[1], losses |-> p[2], ties |-> 0,
      goals_for |-> 3 * p[1], goals_against |-> 3 * p[2], games |-> <<>>] :
        p \in {<<1, 0>>, <<0, 1>>, <<BigGames, 0>>}}

SampleComparisons ==
    {[opponent |-> B, our_record |-> o, their_record |-> t,
      recency_weight |-> Pow05(RInt(d))] :
        o \in SampleRecords, t \in SampleRecords, d \in 0..MaxAge}

\* the comparisons are collected one at a time; a list alternates between
\* two comparisons
InitAggregate ==
    /\ store = {}
    /\ now = Now0
    /\ analyzer \in Analyzers
    /\ call = [op |-> "collected", comparisons |-> <<>>]

\* predict_outcome, comparisons.append(comparison)
AppendComparison ==
    /\ Len(call.comparisons) < MaxComparisons
    /\ \E c \in SampleComparisons :
           /\ Len(call.comparisons) >= 2
                  => c = call.comparisons[Len(call.comparisons) - 1]
           /\ call' = [op |-> "collected", comparisons |-> Append(call.comparisons, c)]
    /\ UNCHANGED <<store, now, analyzer>>

\* predict_outcome from "Calculate aggregate advantage score" on, over the
\* comparisons collected
AggregateComparisons ==
    /\ call.op = "collected"
    /\ call' = [op |-> "aggregated", comparisons |-> call.comparisons,
                res |-> Aggregated(analyzer, ab, NoLeague, call.comparisons, TeamRecord)]
    /\ UNCHANGED <<store, now, analyzer>>

NextAggregate == AppendComparison \/ AggregateComparisons

SpecAggregate == InitAggregate /\ [][NextAggregate]_vars

AggregatedSome == call.op = "aggregated" /\ call.comparisons # <<>>

\* C18: with a qualifying comparison the advantage_score, before rounding to
\* two places, is the sum of score * w over the sum of w
C18_AdvantageIsWeightedMean ==
    AggregatedSome
    => call.res.advantage_score = Round(WeightedMean(call.comparisons), 100)

\* two comparisons of different sign and different recency weight, one of
\* them with more than 6 games
C18_Witness ==
    /\ AggregatedSome
    /\ Len(call.comparisons) = 2
    /\ call.comparisons[1].recency_weight # call.comparisons[2].recency_weight
    /\ RLt(RInt(0), advantage_score(call.comparisons[1]))
    /\ RLt(advantage_score(call.comparisons[2]), RInt(0))
    /\ games_played(call.comparisons[1].our_record)
           + games_played(call.comparisons[1].their_record) > 6

\* C19: with n >= 1 qualifying comparisons the confidence, before the
\* minimum-evidence cap and rounding, is min(n/4, 1) * f * 100; uncapped and
\* with n >= 2 it lies between 50 * min(n/4, 1) and 100 * min(n/4, 1)
C19_ConfidenceFormula ==
    AggregatedSome
    => \A mean \in {WeightedMean(call.comparisons)} :
       \A V \in {MeanSquaredDeviation(call.comparisons, mean)} :
       \A expected \in {ExpectedConfidence(Len(call.comparisons), V)} :
       LET n == Len(call.comparisons)
           capped == IF RLt(RInt(30), expected) THEN RInt(30) ELSE expected
       IN  /\ call.res.confidence
                  = Round(IF n < analyzer.min_shared_opponents THEN capped ELSE expected, 1)
           /\ (n >= 2 /\ n >= analyzer.min_shared_opponents)
                  => /\ RLe(RMul(RInt(50), BaseConfidence(n)), call.res.confidence)
                     /\ RLe(call.res.confidence, RMul(RInt(100), BaseConfidence(n)))

\* five comparisons that disagree by more than the floor of f allows
C19_Witness ==
    /\ AggregatedSome
    /\ Len(call.comparisons) > 4
    /\ \E mean \in {WeightedMean(call.comparisons)} :
           RLt(Rat(1, 2), MeanSquaredDeviation(call.comparisons, mean))
    /\ call.res.confidence = RInt(50)

\* C20: with at least min_shared_opponents qualifying comparisons the outcome
\* is UNCERTAIN below 0.15 in absolute value, FAVORABLE for a positive score
\* and UNFAVORABLE otherwise; the two decided outcomes occur in no other case
C20_OutcomeClassification ==
    call.op = "aggregated"
    => LET n == Len(call.comparisons)
           score == WeightedMean(call.comparisons)
           small == /\ RLt(Rat(0 - 15, 100), score)
                    /\ RLt(score, Rat(15, 100))
       IN  /\ (n >= 1 /\ n >= analyzer.min_shared_opponents)
                  => call.res.outcome = IF small THEN "UNCERTAIN"
                                        ELSE IF RLt(RInt(0), score) THEN "FAVORABLE"
                                        ELSE "UNFAVORABLE"
           /\ call.res.outcome \in {"FAVORABLE", "UNFAVORABLE"}
                  => n >= analyzer.min_shared_opponents /\ ~small

\* enough comparisons and a score of -0.15 or below
C20_Witness ==
    /\ AggregatedSome
    /\ Len(call.comparisons) >= analyzer.min_shared_opponents
    /\ call.res.outcome = "UNFAVORABLE"

(***************************************************************************)
(* Properties of predict_outcome session by session (SpecQueries)          *)
(***************************************************************************)
Returned == call.op = "predict_outcome"

\* C11: every comparison in the comparisons list of a returned
\* PredictionResult, and every comparison about to enter the roll-up, has
\* our_record.games_played > 0 and their_record.games_played > 0
C11_ComparisonsBothPlayed ==
    /\ Returned
           => \A i \in 1..Len(call.res.comparisons) :
                  /\ games_played(call.res.comparisons[i].our_record) > 0
                  /\ games_played(call.res.comparisons[i].their_record) > 0
    /\ call.op = "comparisons"
           => \A i \in 1..Len(call.comparisons) :
                  /\ games_played(call.comparisons[i].our_record) > 0
                  /\ games_played(call.comparisons[i].their_record) > 0

\* a result that keeps one comparison and lost another: a shared opponent
\* whose games on one side were gone when the records were read
C11_Witness ==
    /\ Returned
    /\ call.res.comparisons # <<>>
    /\ Len(call.res.comparisons) < Len(call.shared_opponents)

\* C13: when a store query of predict_outcome fails (an opponent-set query, a
\* head-to-head query of a shared opponent, or the direct head-to-head query)
\* the call ends with the error and without a PredictionResult, and the
\* engine does not go on with the call or run the query again
C13_QueryFailurePropagates ==
    [][/\ "failed" \in DOMAIN call'
              => /\ call'.op = "raised"
                 /\ call'.failed \in {"opponents", "head_to_head", "direct"}
                 /\ DOMAIN call' \cap {"res", "comparisons", "shared_opponents"} = {}
       /\ (call.op = "raised" /\ call' # call)
              => call'.op \notin {"comparisons", "predict_outcome"}]_vars

\* the head-to-head query of a shared opponent failed after the shared
\* opponents had been found
C13_Witness ==
    /\ call.op = "raised"
    /\ call.failed = "head_to_head"
    /\ store # {}

(***************************************************************************)
(* Properties of the aggregation over malformed rows (SpecRows)            *)
(***************************************************************************)
\* a row with a date that parses and with both scores
WellFormed(game) ==
    /\ ParsesAsDate(game.metadata.date)
    /\ {"home_score", "away_score"} \subseteq DOMAIN game.metadata

QueryOps ==
    {"predict_outcome", "find_shared_opponents", "get_comparative_performance",
     "get_head_to_head_record", "predict_upcoming"}

\* what a call with the arguments of c returns over table at clock
Answers(self, table, clock, c) ==
    {CASE c.op = "predict_outcome" ->
              predict_outcome(self, table, clock, c.opponent, c.league_name, tie)
       [] c.op = "find_shared_opponents" ->
              find_shared_opponents(self, table, clock, c.opponent, c.league_name, tie)
       [] c.op = "get_comparative_performance" ->
              get_comparative_performance(self, table, clock, c.shared_opponent,
                                          c.opponent, c.league_name, tie)
       [] c.op = "get_head_to_head_record" ->
              get_head_to_head_record(self, table, clock, c.opponent, c.league_name, tie)
       [] c.op = "predict_upcoming" ->
              predict_upcoming(self, table, clock, c.upcoming_games, c.league_name, tie)
     : tie \in Orders}

\* C15: predict_outcome, find_shared_opponents, get_comparative_performance,
\* get_head_to_head_record and predict_upcoming leave the store contents and
\* the analyzer's configuration as they were, and what a call returns is
\* what its arguments give over the store and the date of the call, whatever
\* was asked before
C15_QueriesReadOnly ==
    [][(call'.op \in QueryOps /\ call' # call)
           => /\ store' = store
              /\ analyzer' = analyzer
              /\ call'.res \in Answers(analyzer, store, now, call')]_vars

\* a prediction with comparisons that follows the same prediction, over a
\* table that still holds its games
C15_Witness ==
    /\ call.op = "predict_outcome"
    /\ call.again
    /\ call.res.comparisons # <<>>
    /\ store \in Tables \ {{}}

(***************************************************************************)
(* AllGamesStore.add_games statement by statement (SpecStore).  The        *)
(* session of get_session is a transaction: its writes are in session, the *)
(* table as the session sees it, and reach the table when it commits       *)
(***************************************************************************)
MaxBatch == 3             \* add_games is called with up to MaxBatch games

\* the games a scrape may deliver: a fixture, the same game with its
\* score, another result
Scraped ==
    { RawGame(KW, B,  2, None,    None,    L1),
      RawGame(KW, B,  2, Some(3), Some(0), L1),
      RawGame(KW, C,  3, Some(0), Some(1), L1) }

ScrapedBatches ==
    UNION {[1..n -> Scraped] : n \in 0..MaxBatch}

RECURSIVE UniqueGames(_, _)
\* add_games, "Deduplicate games by ID"
UniqueGames(games, seen_ids) ==
    IF games = <<>> THEN <<>>
    ELSE IF GameId(Head(games)) \in seen_ids
         THEN UniqueGames(Tail(games), seen_ids)
         ELSE <<Head(games)>> \o UniqueGames(Tail(games), seen_ids \cup {GameId(Head(games))})

\* get_session that keeps what the session wrote when the body raises
RollBackKeepsWrites(table, session) == session

\* get_session, "except Exception: session.rollback(); raise": the table
\* after the session is closed
RollBack(table, session) == table

\* add_games(games) up to "with get_session() as session"
BeginAddGames ==
    /\ call.op # "adding"
    /\ \E games \in ScrapedBatches :
           call' = IF games = <<>>
                   THEN [op |-> "add_games", games |-> games, before |-> store,
                         added |-> 0, updated |-> 0]
                   ELSE [op |-> "adding", games |-> games, before |-> store,
                         unique_games |-> UniqueGames(games, {}),
                         session |-> store, added |-> 0, updated |-> 0]
    /\ UNCHANGED <<store, now, analyzer>>

\* add_games, one pass of "for game in unique_games"; building values or a
\* statement may raise
UpsertGame ==
    /\ call.op = "adding"
    /\ call.unique_games # <<>>
    /\ \E fails \in BOOLEAN :
           IF fails
           THEN /\ store' = RollBack(store, call.session)
                /\ call' = [op |-> "raised", games |-> call.games, before |-> call.before,
                            session |-> call.session]
           ELSE LET game == Head(call.unique_games)
                    existing == {r \in call.session : r.game_id = GameId(game)}
                IN  /\ call' = [call EXCEPT
                                  !.unique_games = Tail(@),
                                  !.session = (@ \ existing) \cup {Values(game)},
                                  !.added = IF existing = {} THEN @ + 1 ELSE @,
                                  !.updated = IF existing = {} THEN @ ELSE @ + 1]
                    /\ store' = store
    /\ UNCHANGED <<now, analyzer>>

\* get_session, "session.commit()", and "return added, updated"; the commit
\* may raise
CommitAddGames ==
    /\ call.op = "adding"
    /\ call.unique_games = <<>>
    /\ \E fails \in BOOLEAN :
           IF fails
           THEN /\ store' = RollBack(store, call.session)
                /\ call' = [op |-> "raised", games |-> call.games, before |-> call.before,
                            session |-> call.session]
           ELSE /\ store' = call.session
                /\ call' = [op |-> "add_games", games |-> call.games,
                            before |-> call.before,
                            added |-> call.added, updated |-> call.updated]
    /\ UNCHANGED <<now, analyzer>>

\* AllGamesStore.clear() between two calls of add_games
ClearBetweenCalls ==
    /\ call.op # "adding"
    /\ Clear

NextStore ==
    \/ BeginAddGames
    \/ UpsertGame
    \/ CommitAddGames
    \/ ClearBetweenCalls

SpecStore == Init /\ [][NextStore]_vars

\* the game_ids of a batch
BatchIds(games) == {GameId(games[i]) : i \in 1..Len(games)}

\* C30: add_games is all-or-nothing per batch.  When an error occurs while a
\* game of the batch is upserted or the session commits, the error
\* propagates and the table holds none of the inserts or updates of the
\* batch; when add_games completes, the table holds exactly one row per
\* game_id, the rows of the batch carry the values of the batch, the other
\* rows are as before, and added + updated is the number of distinct game_ids
\* of the batch
C30_AddGamesAllOrNothing ==
    /\ call.op \in {"raised", "adding"} => store = call.before
    /\ call.op = "add_games"
       => /\ \A r1 \in store, r2 \in store : r1.game_id = r2.game_id => r1 = r2
          /\ \A id \in BatchIds(call.games) : \E r \in store : r.game_id = id
          /\ \A r \in store :
                 \/ r \in call.before /\ r.game_id \notin BatchIds(call.games)
                 \/ \E i \in 1..Len(call.games) :
                        /\ r = Values(call.games[i])
                        /\ \A j \in 1..(i - 1) : GameId(call.games[j]) # r.game_id
          /\ \A r \in call.before :
                 r.game_id \notin BatchIds(call.games) => r \in store
          /\ call.added + call.updated = Cardinality(BatchIds(call.games))
          /\ call.added = Cardinality(BatchIds(call.games)
                                      \ {r.game_id : r \in call.before})
          /\ <<store, call.added, call.updated>> = add_games(call.before, call.games)

\* an error after the session inserted one game and updated another
C30_Witness ==
    /\ call.op = "raised"
    /\ \E r \in call.session : r.game_id \notin {b.game_id : b \in call.before}
    /\ \E r \in call.session, b \in call.before : r.game_id = b.game_id /\ r # b
    /\ store = call.before

(***************************************************************************)
(* Games without a recorded score (Spec)                                   *)
(***************************************************************************)
\* the rows of the table that have both scores
ScoredRows(table) == {r \in table : r.home_score # None /\ r.away_score # None}

\* the TeamRecords and the HeadToHeadRecord of a prediction
RecordsOf(prediction) ==
    {prediction.comparisons[i].our_record : i \in 1..Len(prediction.comparisons)}
    \cup {prediction.comparisons[i].their_record : i \in 1..Len(prediction.comparisons)}
    \cup {prediction.head_to_head[i] : i \in 1..Len(prediction.head_to_head)}

\* C21: a game with home_score or away_score null contributes nothing to a
\* TeamRecord or the HeadToHeadRecord of a prediction: it is in no games list,
\* the prediction is the one the scored rows alone give, and goals_for and
\* goals_against are not negative
C21_UnscoredGamesContributeNothing ==
    Predicted
    => /\ \A record \in RecordsOf(call.res) :
              /\ record.goals_for >= 0
              /\ record.goals_against >= 0
              /\ \A i \in 1..Len(record.games) :
                     \E r \in ScoredRows(store) : record.games[i].id = r.game_id
       /\ \E tie \in Orders :
              call.res = predict_outcome(analyzer, ScoredRows(store), call.clock,
                                         call.opponent, call.league_name, tie)

\* a prediction with comparisons and a direct record over a table that
\* holds, inside the window, a fixture of the two teams with one score only
C21_Witness ==
    /\ Predicted
    /\ call.opponent = ab
    /\ call.res.comparisons # <<>>
    /\ \E r \in store :
           /\ r.home_score # None
           /\ r.away_score = None
           /\ r.date >= _get_date_cutoff(analyzer, call.clock)

(***************************************************************************)
(* The store queries of one predict_outcome (SpecQueries)                  *)
(***************************************************************************)
\* C22: a predict_outcome call that discovers k shared opponents issues
\* 2 + 2k + 1 store queries in this order: the opponent set of our_team, the
\* opponent set of the opponent, for every shared opponent in ascending name
\* order the head-to-head of our_team and then of the opponent, and last
\* the direct head-to-head
C22_QuerySequence ==
    Returned
    => LET k == Len(call.shared_opponents)
           q == call.queries
       IN  /\ Len(q) = 2 + 2 * k + 1
           /\ q[1] = [query |-> "get_opponents_for_team", team_name |-> analyzer.our_team]
           /\ q[2] = [query |-> "get_opponents_for_team", team_name |-> call.opponent]
           /\ \A i \in 1..k :
                  /\ q[2 * i + 1] = [query |-> "get_head_to_head",
                                     team1 |-> analyzer.our_team,
                                     team2 |-> call.shared_opponents[i]]
                  /\ q[2 * i + 2] = [query |-> "get_head_to_head",
                                     team1 |-> call.opponent,
                                     team2 |-> call.shared_opponents[i]]
           /\ \A i \in 1..k, j \in 1..k :
                  i < j => StrLess(call.shared_opponents[i], call.shared_opponents[j])
           /\ q[2 * k + 3] = [query |-> "get_head_to_head",
                              team1 |-> analyzer.our_team, team2 |-> call.opponent]

\* a call that discovered two shared opponents
C22_Witness ==
    /\ Returned
    /\ Len(call.shared_opponents) = 2
    /\ Len(call.queries) = 7

(***************************************************************************)
(* predict_upcoming (SpecClient)                                           *)
(***************************************************************************)
\* the positions of upcoming_games that hold the first fixture of an opponent
FirstFixtures(upcoming_games) ==
    {i \in 1..Len(upcoming_games) :
        \A j \in 1..(i - 1) :
            Lower(upcoming_games[j].metadata.opponent)
                # Lower(upcoming_games[i].metadata.opponent)}

\* C23: predict_upcoming returns exactly one PredictionResult per distinct
\* lowercased opponent among the fixtures the game store returned, in the
\* order of each opponent's first fixture; a later fixture against an
\* opponent already seen adds no prediction
C23_OnePredictionPerOpponent ==
    call.op = "predict_upcoming"
    => LET first == FirstFixtures(call.upcoming_games)
       IN  /\ Len(call.res) = Cardinality(first)
           /\ Len(call.res) =
                  Cardinality({Lower(call.upcoming_games[i].metadata.opponent) :
                                   i \in 1..Len(call.upcoming_games)})
           /\ \A i \in first :
                  call.res[Cardinality({j \in first : j <= i})].opponent
                      = call.upcoming_games[i].metadata.opponent

\* three fixtures, the third against the first opponent in another case
C23_Witness ==
    /\ call.op = "predict_upcoming"
    /\ Len(call.upcoming_games) = 3
    /\ Len(call.res) = 2
    /\ call.upcoming_games[3].metadata.opponent # call.upcoming_games[1].metadata.opponent
    /\ Lower(call.upcoming_games[3].metadata.opponent)
           = Lower(call.upcoming_games[1].metadata.opponent)

(***************************************************************************)
(* The time window and the league filter (Spec)                            *)
(***************************************************************************)
\* the rows dated on or after the cutoff of the call whose league_name
\* contains the league filter of the call, when it has one
RowsInScope(table) ==
    {r \in table :
        /\ r.date >= call.clock - analyzer.time_window_days
        /\ Truthy(call.league_name) =>
               Contains(Lower(call.league_name), Lower(r.league_name))}

\* C24: every game counted in a record of a comparison or in the
\* head-to-head record of a prediction is dated on or after the current date
\* minus time_window_days and, under a league filter, has a league_name that
\* contains the filter without regard to case; the prediction is the one the
\* rows in the window and league alone give
C24_OnlyGamesInWindowAndLeague ==
    Predicted
    => /\ \A record \in RecordsOf(call.res) :
              \A i \in 1..Len(record.games) :
                  /\ record.games[i].metadata.date
                         >= call.clock - analyzer.time_window_days
                  /\ Truthy(call.league_name) =>
                         Contains(Lower(call.league_name),
                                  Lower(record.games[i].metadata.league_name))
       /\ \E tie \in Orders :
              call.res = predict_outcome(analyzer, RowsInScope(store), call.clock,
                                         call.opponent, call.league_name, tie)

\* a prediction with comparisons over a table that holds a scored game of
\* the opponent older than the cutoff, against a team we played in the window
C24_Witness ==
    /\ Predicted
    /\ call.res.comparisons # <<>>
    /\ \E r \in ScoredRows(store), o \in ScoredRows(store) :
           /\ r.date < call.clock - analyzer.time_window_days
           /\ o.date >= call.clock - analyzer.time_window_days
           /\ Contains(Lower(call.opponent), Lower(r.home_team))
           /\ Contains(Lower(analyzer.our_team), Lower(o.home_team))
           /\ r.away_team = o.away_team

\* a prediction under a league filter with comparisons, over a table that
\* holds a scored game of the opponent in another league
OtherLeagueGameLeftOut ==
    /\ Predicted
    /\ Truthy(call.league_name)
    /\ call.res.comparisons # <<>>
    /\ \E r \in ScoredRows(store) :
           /\ ~Contains(Lower(call.league_name), Lower(r.league_name))
           /\ Contains(Lower(call.opponent), Lower(r.away_team))

(***************************************************************************)
(* The direct record and the record against a shared opponent              *)
(* (SpecHeadToHead)                                                        *)
(***************************************************************************)
\* C25: for every table, opponent and league filter get_head_to_head_record
\* gives the wins, losses, ties, goals_for, goals_against and games that
\* _build_team_record(our_team, opponent) gives over the same window, the
\* store returning the rows of one date in the same order to both
C25_HeadToHeadIsTeamRecord ==
    call.op = "get_head_to_head_record"
    => /\ \A tie \in Orders :
              get_head_to_head_record(analyzer, store, call.clock, call.opponent,
                                      call.league_name, tie)
                  = _build_team_record(analyzer, store, call.clock, analyzer.our_team,
                                       call.opponent, call.league_name, tie)
       /\ \E tie \in Orders :
              call.res = _build_team_record(analyzer, store, call.clock, analyzer.our_team,
                                            call.opponent, call.league_name, tie)

\* a direct record of a win at home and a defeat
C25_Witness ==
    /\ call.op = "get_head_to_head_record"
    /\ Len(call.res.games) = 2
    /\ call.res.wins = 1
    /\ call.res.losses = 1
    /\ call.res.goals_for = 3

(***************************************************************************)
(* Shared opponents and comparisons of one call (Spec: predict_outcome     *)
(* reads one table on one day)                                             *)
(***************************************************************************)
\* C26: with the table and the date unchanged during a predict_outcome call,
\* every name find_shared_opponents returns gives a comparison in which both
\* records have at least one game, so comparisons has exactly one entry per
\* shared opponent, in the same ascending order
C26_EverySharedOpponentCompared ==
    Predicted
    => \A tie \in Orders :
           LET shared_opponents == find_shared_opponents(analyzer, store, call.clock,
                                      call.opponent, call.league_name, tie)
           IN  /\ Len(call.res.comparisons) = Len(shared_opponents)
               /\ \A i \in 1..Len(shared_opponents) :
                      /\ call.res.comparisons[i].opponent = shared_opponents[i]
                      /\ games_played(call.res.comparisons[i].our_record) > 0
                      /\ games_played(call.res.comparisons[i].their_record) > 0
                      /\ \A j \in 1..(i - 1) :
                             StrLess(shared_opponents[j], shared_opponents[i])

\* a prediction over two shared opponents
C26_Witness ==
    /\ Predicted
    /\ Len(call.res.comparisons) = 2
    /\ Len(find_shared_opponents(analyzer, store, call.clock, call.opponent,
                                 call.league_name, "asc")) = 2

(***************************************************************************)
(* Writes of another process during a prediction (SpecQueries)             *)
(***************************************************************************)
\* C27: when add_games or clear of another process commits while a
\* predict_outcome call is under way, the result is the one predict_outcome
\* gives on one table, the one before the write or the one after it
C27_ResultFromOneTable ==
    (Returned /\ call.clock = now)
    => \E table \in {call.table, store}, tie \in Orders :
           call.res = predict_outcome(analyzer, table, now, call.opponent,
                                      call.league_name, tie)

\* a returned call during which the table was written
WrittenDuringCall ==
    /\ Returned
    /\ call.clock = now
    /\ store # call.table

(***************************************************************************)
(* The outcome label and the advantage_score of the result (SpecAggregate) *)
(***************************************************************************)
\* a draw and a win without conceding; a win, a draw and a defeat; two
\* defeats without scoring
CloseRecords ==
    {[wins |-> 1, losses |-> 0, ties |-> 1,
      goals_for |-> 1, goals_against |-> 0, games |-> <<>>],
     [wins |-> 1, losses |-> 1, ties |-> 1,
      goals_for |-> 1, goals_against |-> 2, games |-> <<>>],
     [wins |-> 0, losses |-> 2, ties |-> 0,
      goals_for |-> 0, goals_against |-> 4, games |-> <<>>]}

CloseComparisons ==
    {[opponent |-> B, our_record |-> o, their_record |-> t,
      recency_weight |-> Pow05(RInt(d))] :
        o \in CloseRecords, t \in CloseRecords, d \in 0..MaxAge}

\* predict_outcome, comparisons.append(comparison), over records that lie
\* close to each other
AppendCloseComparison ==
    /\ Len(call.comparisons) < MaxComparisons
    /\ \E c \in CloseComparisons :
           /\ Len(call.comparisons) >= 2
                  => c = call.comparisons[Len(call.comparisons) - 1]
           /\ call' = [op |-> "collected", comparisons |-> Append(call.comparisons, c)]
    /\ UNCHANGED <<store, now, analyzer>>

NextOutcome == AppendCloseComparison \/ AggregateComparisons

SpecOutcome == InitAggregate /\ [][NextOutcome]_vars

\* a result with at least min_shared_opponents comparisons
EnoughEvidence ==
    /\ AggregatedSome
    /\ Len(call.comparisons) >= analyzer.min_shared_opponents

\* C28 as stated: in a result with at least min_shared_opponents comparisons
\* the outcome agrees with the advantage_score of the result, which is
\* rounded to two places: UNCERTAIN exactly when its absolute value is
\* below 0.15, FAVORABLE exactly when it is at least 0.15, UNFAVORABLE exactly
\* when it is at most -0.15
C28_OutcomeMatchesReturnedScore ==
    EnoughEvidence
    => \A score \in {call.res.advantage_score} :
           /\ call.res.outcome = "UNCERTAIN" <=> RLt(RAbs(score), Rat(15, 100))
           /\ call.res.outcome = "FAVORABLE" <=> RLe(Rat(15, 100), score)
           /\ call.res.outcome = "UNFAVORABLE" <=> RLe(score, Rat(0 - 15, 100))

\* C28: in a result with at least min_shared_opponents comparisons the
\* outcome is decided by the score before rounding (UNCERTAIN exactly when
\* its absolute value is below 0.15, otherwise its sign), and it agrees with
\* the rounded advantage_score of the result except that a result showing
\* exactly 0.15 or -0.15 may be UNCERTAIN
C28_OutcomeFromUnroundedScore ==
    EnoughEvidence
    => \A mean \in {WeightedMean(call.comparisons)} :
       \A score \in {call.res.advantage_score} :
           /\ score = Round(mean, 100)
           /\ call.res.outcome = "UNCERTAIN" <=> RLt(RAbs(mean), Rat(15, 100))
           /\ call.res.outcome = "FAVORABLE" <=> RLe(Rat(15, 100), mean)
           /\ call.res.outcome = "UNFAVORABLE" <=> RLe(mean, Rat(0 - 15, 100))
           /\ RLt(RAbs(score), Rat(15, 100)) => call.res.outcome = "UNCERTAIN"
           /\ RLt(Rat(15, 100), score) => call.res.outcome = "FAVORABLE"
           /\ RLt(score, Rat(0 - 15, 100)) => call.res.outcome = "UNFAVORABLE"
           /\ call.res.outcome = "FAVORABLE" => RLe(Rat(15, 100), score)
           /\ call.res.outcome = "UNFAVORABLE" => RLe(score, Rat(0 - 15, 100))

\* a result that shows 0.15 and is UNCERTAIN: the score is 7/48
C28_Witness ==
    /\ EnoughEvidence
    /\ call.res.advantage_score = Rat(15, 100)
    /\ call.res.outcome = "UNCERTAIN"
    /\ WeightedMean(call.comparisons) = Rat(7, 48)

(***************************************************************************)
(* The roll-up in floating point (SpecRollUp).  Python's float is binary    *)
(* floating point: every +, -, * and / gives the exact result rounded to   *)
(* the nearest number with a mantissa of 53 bits, a tie going to the even  *)
(* mantissa.  The model keeps the rule and shortens the mantissa to        *)
(* MantissaBits bits; the exponent is unbounded                            *)
(***************************************************************************)
MantissaBits == 8

RECURSIVE Normalized(_, _, _)
\* <<a', d', e>> with a'/d' = (a/d) * 2^e and 2^(MantissaBits-1) <= a'/d' < 2^MantissaBits
Normalized(a, d, e) ==
    IF a \div d >= Pow2(MantissaBits) THEN Normalized(a, 2 * d, e - 1)
    ELSE IF a \div d < Pow2(MantissaBits - 1)
         THEN IF d % 2 = 0 THEN Normalized(a, d \div 2, e + 1)
              ELSE Normalized(2 * a, d, e + 1)
         ELSE <<a, d, e>>

\* the float nearest to the rational x
Fl(x) ==
    IF x[1] = 0 THEN <<0, 1>>
    ELSE LET t == Normalized(Abs(x[1]), x[2], 0)
             q == t[1] \div t[2]
             r == t[1] % t[2]
             m == IF 2 * r > t[2] \/ (2 * r = t[2] /\ q % 2 = 1) THEN q + 1 ELSE q
             magnitude == IF t[3] >= 0 THEN Rat(m, Pow2(t[3]))
                          ELSE <<m * Pow2(0 - t[3]), 1>>
         IN  IF x[1] < 0 THEN RNeg(magnitude) ELSE magnitude

FAdd(x, y) == Fl(RAdd(x, y))
FSub(x, y) == Fl(RSub(x, y))
FMul(x, y) == Fl(RMul(x, y))
FDiv(x, y) == Fl(RDiv(x, y))

\* SharedOpponentComparison.advantage_score in floating point
FloatAdvantageScore(comparison) ==
    LET our_record == comparison.our_record
        their_record == comparison.their_record
        our_games == games_played(our_record)
        their_games == games_played(their_record)
        our_win_rate ==
            FDiv(FAdd(RInt(our_record.wins), FMul(Rat(1, 2), RInt(our_record.ties))),
                 RInt(our_games))
        their_win_rate ==
            FDiv(FAdd(RInt(their_record.wins), FMul(Rat(1, 2), RInt(their_record.ties))),
                 RInt(their_games))
        win_diff == FMul(FSub(our_win_rate, their_win_rate), Rat(1, 2))
        our_gd_per_game == FDiv(RInt(goal_diff(our_record)), RInt(our_games))
        their_gd_per_game == FDiv(RInt(goal_diff(their_record)), RInt(their_games))
        gd_raw == FDiv(FSub(our_gd_per_game, their_gd_per_game), RInt(5))
        gd_diff == Clamp(Rat(0 - 1, 2), Rat(1, 2), gd_raw)
        raw == FMul(FAdd(win_diff, gd_diff), comparison.recency_weight)
    IN  IF our_games = 0 \/ their_games = 0 THEN RInt(0)
        ELSE Clamp(RInt(0 - 1), RInt(1), raw)

\* FloatWeight that counts the games beyond the fifth only
FloatWeightBeyondFiveGames(comp) ==
    LET total == games_played(comp.our_record) + games_played(comp.their_record)
        games_weight == FDiv(RInt((IF total < 6 THEN total ELSE 6) - 5), RInt(6))
    IN  FMul(comp.recency_weight, games_weight)

\* weight = comp.recency_weight * games_weight in floating point
FloatWeight(comp) ==
    LET total == games_played(comp.our_record) + games_played(comp.their_record)
        games_weight == FDiv(RInt(IF total < 6 THEN total ELSE 6), RInt(6))
    IN  FMul(comp.recency_weight, games_weight)

\* predict_outcome, "total_weight = 0.0; weighted_advantage = 0.0"
BeginRollUp ==
    /\ call.op = "collected"
    /\ call.comparisons # <<>>
    /\ call' = [op |-> "rolling", comparisons |-> call.comparisons, scores |-> <<>>,
                weighted_advantage |-> RInt(0), total_weight |-> RInt(0)]
    /\ UNCHANGED <<store, now, analyzer>>

\* predict_outcome, one pass of "for comp in comparisons"
AccumulateComparison ==
    /\ call.op = "rolling"
    /\ Len(call.scores) < Len(call.comparisons)
    /\ \A comp \in {call.comparisons[Len(call.scores) + 1]} :
       \A weight \in {FloatWeight(comp)} :
       \A score \in {FloatAdvantageScore(comp)} :
           call' = [call EXCEPT
                      !.scores = Append(@, score),
                      !.weighted_advantage = FAdd(@, FMul(score, weight)),
                      !.total_weight = FAdd(@, weight)]
    /\ UNCHANGED <<store, now, analyzer>>

\* predict_outcome, "advantage_score = weighted_advantage / total_weight"
DivideByTotalWeight ==
    /\ call.op = "rolling"
    /\ Len(call.scores) = Len(call.comparisons)
    /\ call' = [op |-> "rolled", comparisons |-> call.comparisons, scores |-> call.scores,
                advantage_score |->
                    IF RLt(RInt(0), call.total_weight)
                    THEN FDiv(call.weighted_advantage, call.total_weight)
                    ELSE RInt(0)]
    /\ UNCHANGED <<store, now, analyzer>>

NextRollUp ==
    \/ AppendCloseComparison
    \/ BeginRollUp
    \/ AccumulateComparison
    \/ DivideByTotalWeight

SpecRollUp == InitAggregate /\ [][NextRollUp]_vars

RolledUp == call.op = "rolled"

\* the largest absolute value among the scores
RECURSIVE MaxAbs(_)
MaxAbs(scores) ==
    IF scores = <<>> THEN RInt(0) ELSE RMax(RAbs(Head(scores)), MaxAbs(Tail(scores)))

\* the rounding error n comparisons can add to the roll-up: each of the
\* 2n + 2 operations errs by at most 2^-MantissaBits of its result
RoundingError(scores) ==
    RDiv(RMul(RInt(2 * (2 * Len(scores) + 2)), MaxAbs(scores)), RInt(Pow2(MantissaBits)))

\* x <= y, by the sign of y - x
NotAbove(x, y) == RSub(y, x)[1] >= 0

\* C29 as stated: the rolled-up advantage score, before rounding to two
\* places, is not below the smallest and not above the largest
\* advantage_score of the comparisons; it is positive when every
\* comparison's score is positive and negative when every one is negative
C29_RollUpBetweenExtremes ==
    RolledUp
    => /\ \E i \in 1..Len(call.scores) : NotAbove(call.scores[i], call.advantage_score)
       /\ \E i \in 1..Len(call.scores) : NotAbove(call.advantage_score, call.scores[i])
       /\ (\A i \in 1..Len(call.scores) : call.scores[i][1] > 0)
              => call.advantage_score[1] > 0
       /\ (\A i \in 1..Len(call.scores) : call.scores[i][1] < 0)
              => call.advantage_score[1] < 0

\* C29: the rolled-up advantage score, before rounding to two places, lies
\* between the smallest and the largest advantage_score of the comparisons up
\* to the rounding error of the floating-point sum and quotient; it is
\* positive when every comparison's score is positive and negative when every
\* one is negative
C29_RollUpBetweenExtremesUpToRounding ==
    RolledUp
    => /\ \E i \in 1..Len(call.scores) :
              NotAbove(RSub(call.scores[i], RoundingError(call.scores)),
                       call.advantage_score)
       /\ \E i \in 1..Len(call.scores) :
              NotAbove(call.advantage_score,
                       RAdd(call.scores[i], RoundingError(call.scores)))
       /\ (\A i \in 1..Len(call.scores) : call.scores[i][1] > 0)
              => call.advantage_score[1] > 0
       /\ (\A i \in 1..Len(call.scores) : call.scores[i][1] < 0)
              => call.advantage_score[1] < 0

\* a roll-up of positive scores that is positive and is below the smallest
\* or above the largest of them
C29_Witness ==
    /\ RolledUp
    /\ \A i \in 1..Len(call.scores) : call.scores[i][1] > 0
    /\ \/ \A i \in 1..Len(call.scores) : ~NotAbove(call.scores[i], call.advantage_score)
       \/ \A i \in 1..Len(call.scores) : ~NotAbove(call.advantage_score, call.scores[i])
    /\ call.advantage_score[1] > 0

\* the same in exact arithmetic (SpecAggregate): the roll-up is between the
\* smallest and the largest score
ExactRollUpBetweenExtremes ==
    AggregatedSome
    => \A rolled \in {RollUp(call.comparisons)} :
       \A scores \in {[i \in 1..Len(call.comparisons) |->
                          advantage_score(call.comparisons[i])]} :
           /\ call.res.advantage_score = Round(rolled, 100)
           /\ \E i \in 1..Len(scores) : RLe(scores[i], rolled)
           /\ \E i \in 1..Len(scores) : RLe(rolled, scores[i])

====
